---- MODULE Spec2Model ----
(***************************************************************************)
(* A model of the OpenBCI radio packet protocol of OpenBCI_Radios.cpp: the *)
(* serial Buffer and its fragmentation, the byteId / checksum codec, the   *)
(* Device's stream-frame detector, the receive handler                     *)
(* RFduinoGZLL_onReceive of both roles and the main-loop operations that   *)
(* send the first packet and flush the inbound buffers.                    *)
(*                                                                         *)
(* One radio object is a record (RadioState); every function of the source *)
(* is an operator from a record to a record, with the same name.  C arrays *)
(* are sequences: C index i is TLA+ index i + 1 (At and Put hide the       *)
(* shift).  Bytes are 0..255; char is unsigned on the RFduino's ARM build. *)
(*                                                                         *)
(* The local transport carries the bytes the protocol writes               *)
(* (Serial.write of data, status strings as one token each).  The          *)
(* diagnostics printed under verbosePrintouts are not part of the          *)
(* protocol's data and are not modelled.  debugMode is true after          *)
(* construction and a sketch may clear it before begin: both are           *)
(* initial states.                                                         *)
(***************************************************************************)
EXTENDS Integers, Sequences, FiniteSets, TLC

VARIABLES
    radio,      \* radio[p]: the OpenBCI_Radios_Class object running as role p
    last,       \* the operation that produced this state, and its input
    toHost,     \* radio packets sent by the Device, not yet delivered (linked model)
    toDevice,   \* acknowledgement payloads the Host queued for the Device
    acksOwed,   \* Device packets delivered whose acknowledgement is still to come
    pcLog,      \* everything the Host wrote to its local transport (linked model)
    message,    \* the message given to the Device (linked model)
    budget      \* operations the environment may still inject

vars == <<radio, last, toHost, toDevice, acksOwed, pcLog, message, budget>>

Radios == {"Host", "Device"}

----------------------------------------------------------------------------
(* Program constants *)

OPENBCI_MAX_PACKET_SIZE_BYTES == 32
OPENBCI_MAX_DATA_BYTES_IN_PACKET == 31
OPENBCI_MAX_NUMBER_OF_BUFFERS == 4
OPENBCI_BUFFER_LENGTH == 128
OPENBCI_STREAM_PACKET_HEAD == 65
OPENBCI_STREAM_BYTE_START == 160
RFDUINOGZLL_CHANNEL_LIMIT_UPPER == 25
RFDUINOGZLL_CHANNEL_LIMIT_LOWER == 0
DefaultRadioChannel == 25

ORPM_INVALID_CODE_RECEIVED == 0
ORPM_PACKET_BAD_CHECK_SUM == 1
ORPM_PACKET_MISSED == 2
ORPM_DEVICE_SERIAL_OVERFLOW == 4
ORPM_CHANGE_CHANNEL_HOST_REQUEST == 5
ORPM_CHANGE_CHANNEL_DEVICE_READY == 6

OPENBCI_HOST_TIME_SYNC == 60
OPENBCI_HOST_TIME_SYNC_ACK == 44
OPENBCI_HOST_CHANNEL_CHANGE == 7
OPENBCI_HOST_CHANNEL_CHANGE_INVALID == 8
OPENBCI_HOST_CHANNEL_CHANGE_SUCCESS == 9
OPENBCI_HOST_CHANNEL_QUERY == 10

NULL == -1
FLASH_ERASED == -2

----------------------------------------------------------------------------
(* C arrays and bit operations *)

At(arr, i) == arr[i + 1]

Put(arr, i, v) == [arr EXCEPT ![i + 1] = v]

Zeros(n) == [i \in 1..n |-> 0]

Bit(b, k) == (b \div (2 ^ k)) % 2

FlipBit(b, k) == IF Bit(b, k) = 1 THEN b - 2 ^ k ELSE b + 2 ^ k

RECURSIVE SumBytes(_, _)
SumBytes(data, n) == IF n = 0 THEN 0 ELSE data[n] + SumBytes(data, n - 1)

----------------------------------------------------------------------------
(* The byteId / checksum codec *)

\* A pointer is modelled by the memory from it on, the null pointer by the
\* empty sequence.
NullData == <<>>

\* checkSumMake(data, length); data is the array from the pointer on.  The
\* do-while loop runs its body before it tests --length: with length <= 0 it
\* does not stop after `length` bytes but runs on through memory, and what
\* it returns (if it returns) is not determined by the program; `ub` is that
\* outcome: a checksum 0..7, or NULL when the walk faults.
checkSumMakeTwoBits(data, length, ub) ==
    IF data = NullData THEN 0
    ELSE IF length <= 0 THEN ub
    ELSE (4 - (SumBytes(data, length) % 4)) % 4

checkSumMake(data, length, ub) ==
    IF data = NullData THEN 0
    ELSE IF length <= 0 THEN ub
    ELSE (8 - (SumBytes(data, length) % 8)) % 8

byteIdGetCheckSum(byteId) == byteId % 8

byteIdGetIsStream(byteId) == byteId > 127

byteIdGetPacketNumber(byteId) == (byteId % 128) \div 8

byteIdGetStreamPacketType(byteId) == (byteId % 128) \div 8

byteIdMakeShiftingByTwo(isStreamPacket, packetNumber, data, length, ub) ==
    LET cs == checkSumMake(data, length, ub)
    IN  IF cs = NULL THEN NULL
        ELSE ((IF isStreamPacket THEN 128 ELSE 0) + (packetNumber % 16) * 4 + cs) % 256

\* packetNumber & 0x0F of a two's complement int is packetNumber mod 16
byteIdMake(isStreamPacket, packetNumber, data, length, ub) ==
    LET cs == checkSumMake(data, length, ub)
    IN  IF cs = NULL THEN NULL
        ELSE (IF isStreamPacket THEN 128 ELSE 0) + (packetNumber % 16) * 8 + cs

\* data is the whole received packet, len its length (len > 1 at the call)
checkSumsAreEqual(data, len) ==
    byteIdGetCheckSum(At(data, 0)) = checkSumMake(Tail(data), len - 1, 0)

outputGetStopByteFromByteId(byteId) ==
    LET t == byteIdGetStreamPacketType(byteId)
    IN  192 + (t % 16)   \* t | 0xC0 with t in 0..15

----------------------------------------------------------------------------
(* Packet, Buffer and the radio object *)

\* PacketBuffer: data[32], positionRead, positionWrite
NewPacketBuffer ==
    [data |-> Zeros(OPENBCI_MAX_PACKET_SIZE_BYTES), positionRead |-> 0, positionWrite |-> 0]

\* Buffer: packetBuffer[N], numberOfPacketsToSend, numberOfPacketsSent
NewBuffer ==
    [packetBuffer |-> [i \in 1..OPENBCI_MAX_NUMBER_OF_BUFFERS |-> NewPacketBuffer],
     numberOfPacketsToSend |-> 0,
     numberOfPacketsSent |-> 0]

\* A radio transmission is the sequence of bytes handed to sendToHost /
\* sendToDevice; a local-transport write is a byte or a status string.
\* sinceLastSend counts the clock ticks since the radio last transmitted.
Send(st, pkt) == [st EXCEPT !.tx = Append(@, pkt), !.sinceLastSend = 0]

SerialWrite(st, b) == [st EXCEPT !.out = Append(@, b)]

\* A loop of Serial.write over bytes
SerialWriteAll(st, bytes) == [st EXCEPT !.out = @ \o bytes]

\* The start of an operation (a main-loop call or a handler invocation):
\* tx and out record what this operation alone sends and writes.
Begin(st) == [st EXCEPT !.tx = <<>>, !.out = <<>>]

\* History: the last packet sent out of bufferSerial since it was cleaned,
\* and the slot it was in
Sent(st, slot, pkt) == [st EXCEPT !.lastTx = [slot |-> slot, bytes |-> pkt]]

\* timeOfLastPoll = millis(): sinceLastPoll is millis() - timeOfLastPoll in
\* clock ticks, pollTimeoutElapsed the comparison of line 1020
pollRefresh(st) == [st EXCEPT !.pollTimeoutElapsed = FALSE, !.sinceLastPoll = 0]

pollNow(st) == st.pollTimeoutElapsed

pollHost(st) == pollRefresh(Send(st, <<>>))

theLastTimeNewSerialDataWasAvailableWasLongEnough(st) == st.serialTimeoutElapsed

hasEnoughTimePassedToLaunchStreamPacket(st) == st.streamTimeoutElapsed

isAStreamPacketWaitingForLaunch(st) == st.streamPacketBuffer.readyForLaunch

thereIsDataInSerialBuffer(st) ==
    st.bufferSerial.numberOfPacketsSent < st.bufferSerial.numberOfPacketsToSend

doesTheHostHaveAStreamPacketToSendToPC(st) ==
    st.bufferStreamPackets.numberOfPacketsToSend > 0

bufferCleanPacketBuffer(packetBuffer, numberOfPackets) ==
    [i \in 1..OPENBCI_MAX_NUMBER_OF_BUFFERS |->
        IF i <= numberOfPackets
        THEN [packetBuffer[i] EXCEPT !.positionRead = 0, !.positionWrite = 1]
        ELSE packetBuffer[i]]

bufferCleanCompletePacketBuffer(packetBuffer, numberOfPackets) ==
    [i \in 1..OPENBCI_MAX_NUMBER_OF_BUFFERS |->
        IF i <= numberOfPackets
        THEN [packetBuffer[i] EXCEPT !.positionRead = 0, !.positionWrite = 0]
        ELSE packetBuffer[i]]

bufferCleanBuffer(buffer, numberOfPacketsToClean) ==
    [packetBuffer |-> bufferCleanPacketBuffer(buffer.packetBuffer, numberOfPacketsToClean),
     numberOfPacketsToSend |-> 0,
     numberOfPacketsSent |-> 0]

bufferCleanCompleteBuffer(buffer, numberOfPacketsToClean) ==
    [packetBuffer |-> bufferCleanCompletePacketBuffer(buffer.packetBuffer, numberOfPacketsToClean),
     numberOfPacketsToSend |-> 0,
     numberOfPacketsSent |-> 0]

bufferCleanRadio(st) ==
    [st EXCEPT !.bufferRadio = Zeros(OPENBCI_BUFFER_LENGTH),
               !.bufferPositionWriteRadio = 0,
               !.isTheDevicesRadioBufferFilledWithAllThePacketsFromTheHost = FALSE,
               !.isTheHostsRadioBufferFilledWithAllThePacketsFromTheDevice = FALSE]

bufferCleanSerial(st, numberOfPacketsToClean) ==
    [st EXCEPT !.bufferSerial = bufferCleanBuffer(@, numberOfPacketsToClean),
               !.currentPacketBufferSerial = 0,
               !.previousPacketNumber = 0,
               !.lastTx = [slot |-> NULL, bytes |-> <<>>]]

bufferCleanStreamPackets(st, numberOfPacketsToClean) ==
    [st EXCEPT !.bufferStreamPackets = bufferCleanCompleteBuffer(@, numberOfPacketsToClean),
               !.currentPacketBufferStreamPacket = 0]

bufferResetStreamPacketBuffer(st) ==
    [st EXCEPT !.streamPacketBuffer.gotHead = FALSE,
               !.streamPacketBuffer.bytesIn = 0,
               !.streamPacketBuffer.readyForLaunch = FALSE]

\* The object after the constructor and begin(mode): configure() reads the
\* persisted channel, cleans the buffers and runs configureHost or
\* configureDevice.  Globals are zero-initialised.  A timestamp is kept as
\* the truth of the one comparison the program makes with it: the zero
\* timestamps of serial data and of the stream tail have timed out once the
\* board is up, timeOfLastPoll is stamped by configureDevice.
NewRadio(mode, debugMode) ==
    LET zero ==
          [isHost |-> FALSE, isDevice |-> FALSE,
           debugMode |-> debugMode,
           radioChannel |-> DefaultRadioChannel,
           previousRadioChannel |-> 0,
           gzllChannel |-> DefaultRadioChannel,
           flashChannel |-> DefaultRadioChannel,
           bufferSerial |-> NewBuffer,
           currentPacketBufferSerial |-> 0,
           bufferStreamPackets |-> NewBuffer,
           currentPacketBufferStreamPacket |-> 0,
           streamPacketBuffer |->
              [data |-> Zeros(OPENBCI_MAX_PACKET_SIZE_BYTES + 1),
               gotHead |-> FALSE, bytesIn |-> 0,
               readyForLaunch |-> FALSE, typeByte |-> 0],
           bufferRadio |-> Zeros(OPENBCI_BUFFER_LENGTH),
           bufferPositionWriteRadio |-> 0,
           isTheDevicesRadioBufferFilledWithAllThePacketsFromTheHost |-> FALSE,
           isTheHostsRadioBufferFilledWithAllThePacketsFromTheDevice |-> FALSE,
           previousPacketNumber |-> 0,
           isWaitingForNewChannelNumber |-> FALSE,
           isWaitingForNewChannelNumberConfirmation |-> FALSE,
           serialTimeoutElapsed |-> TRUE,
           streamTimeoutElapsed |-> TRUE,
           pollTimeoutElapsed |-> FALSE,
           sinceLastPoll |-> 0,
           sinceLastSend |-> 0,
           flushAt |-> "idle",
           halted |-> FALSE,
           tx |-> <<>>, out |-> <<>>,
           lastTx |-> [slot |-> NULL, bytes |-> <<>>],
           accepted |-> <<>>]
        cleaned == bufferCleanSerial(bufferCleanRadio(zero), OPENBCI_MAX_NUMBER_OF_BUFFERS)
    IN  IF mode = "Device"
        THEN pollRefresh(bufferResetStreamPacketBuffer([cleaned EXCEPT !.isDevice = TRUE]))
        ELSE bufferCleanStreamPackets([cleaned EXCEPT !.isHost = TRUE],
                                      OPENBCI_MAX_NUMBER_OF_BUFFERS)

----------------------------------------------------------------------------
(* The stream-frame detector and local ingestion *)

processCharForStreamPacketWithoutRehead(st, newChar) ==
    LET spb == st.streamPacketBuffer IN
    IF spb.readyForLaunch THEN bufferResetStreamPacketBuffer(st)
    ELSE IF spb.gotHead THEN
        LET stored == [spb EXCEPT !.data = Put(@, spb.bytesIn, newChar),
                                  !.bytesIn = @ + 1]
        IN  IF stored.bytesIn = OPENBCI_MAX_PACKET_SIZE_BYTES + 1 THEN
                IF newChar \div 16 = 15 THEN
                    [st EXCEPT !.streamPacketBuffer =
                                   [stored EXCEPT !.typeByte = newChar,
                                                  !.readyForLaunch = TRUE],
                               !.streamTimeoutElapsed = FALSE]
                ELSE
                    [st EXCEPT !.streamPacketBuffer = [stored EXCEPT !.gotHead = FALSE]]
            ELSE [st EXCEPT !.streamPacketBuffer = stored]
    ELSE IF newChar = OPENBCI_STREAM_PACKET_HEAD THEN
        [st EXCEPT !.streamPacketBuffer.bytesIn = 1,
                   !.streamPacketBuffer.gotHead = TRUE]
    ELSE st

processCharForStreamPacketKeepingLaunch(st, newChar) ==
    LET spb == st.streamPacketBuffer IN
    IF spb.readyForLaunch THEN st
    ELSE IF spb.gotHead THEN
        LET stored == [spb EXCEPT !.data = Put(@, spb.bytesIn, newChar),
                                  !.bytesIn = @ + 1]
        IN  IF stored.bytesIn = OPENBCI_MAX_PACKET_SIZE_BYTES + 1 THEN
                IF newChar \div 16 = 15 THEN
                    [st EXCEPT !.streamPacketBuffer =
                                   [stored EXCEPT !.typeByte = newChar,
                                                  !.readyForLaunch = TRUE],
                               !.streamTimeoutElapsed = FALSE]
                ELSE IF newChar = OPENBCI_STREAM_PACKET_HEAD THEN
                    [st EXCEPT !.streamPacketBuffer = [stored EXCEPT !.bytesIn = 1]]
                ELSE
                    [st EXCEPT !.streamPacketBuffer = [stored EXCEPT !.gotHead = FALSE]]
            ELSE [st EXCEPT !.streamPacketBuffer = stored]
    ELSE IF newChar = OPENBCI_STREAM_PACKET_HEAD THEN
        [st EXCEPT !.streamPacketBuffer.bytesIn = 1,
                   !.streamPacketBuffer.gotHead = TRUE]
    ELSE st

processCharForStreamPacket(st, newChar) ==
    LET spb == st.streamPacketBuffer IN
    IF spb.readyForLaunch THEN bufferResetStreamPacketBuffer(st)
    ELSE IF spb.gotHead THEN
        LET stored == [spb EXCEPT !.data = Put(@, spb.bytesIn, newChar),
                                  !.bytesIn = @ + 1]
        IN  IF stored.bytesIn = OPENBCI_MAX_PACKET_SIZE_BYTES + 1 THEN
                IF newChar \div 16 = 15 THEN
                    [st EXCEPT !.streamPacketBuffer =
                                   [stored EXCEPT !.typeByte = newChar,
                                                  !.readyForLaunch = TRUE],
                               !.streamTimeoutElapsed = FALSE]
                ELSE IF newChar = OPENBCI_STREAM_PACKET_HEAD THEN
                    [st EXCEPT !.streamPacketBuffer = [stored EXCEPT !.bytesIn = 1]]
                ELSE
                    [st EXCEPT !.streamPacketBuffer = [stored EXCEPT !.gotHead = FALSE]]
            ELSE [st EXCEPT !.streamPacketBuffer = stored]
    ELSE IF newChar = OPENBCI_STREAM_PACKET_HEAD THEN
        [st EXCEPT !.streamPacketBuffer.bytesIn = 1,
                   !.streamPacketBuffer.gotHead = TRUE]
    ELSE st

\* The overflow branch of bufferSerialFetch (lines 796-808)
bufferSerialOverflow(st) ==
    LET cleaned == bufferCleanSerial([st EXCEPT !.currentPacketBufferSerial = NULL],
                                     OPENBCI_MAX_NUMBER_OF_BUFFERS)
    IN  IF st.isDevice
        THEN SerialWrite(Send(cleaned, <<ORPM_DEVICE_SERIAL_OVERFLOW>>), "v")
        ELSE IF st.isHost THEN SerialWrite(cleaned, "Input too large!$$$")
        ELSE cleaned

\* One iteration of the while loop of bufferSerialFetch, reading newChar
bufferSerialFetchByte(st, newChar) ==
    LET cur == At(st.bufferSerial.packetBuffer, st.currentPacketBufferSerial)
        advanced ==
          IF cur.positionWrite >= OPENBCI_MAX_PACKET_SIZE_BYTES THEN
              LET more == [st EXCEPT !.bufferSerial.numberOfPacketsToSend = @ + 1]
              IN  IF more.bufferSerial.numberOfPacketsToSend >= OPENBCI_MAX_NUMBER_OF_BUFFERS
                  THEN bufferSerialOverflow(more)
                  ELSE [more EXCEPT !.currentPacketBufferSerial = @ + 1]
          ELSE st
        stored ==
          IF advanced.currentPacketBufferSerial # NULL THEN
              LET c == advanced.currentPacketBufferSerial
                  pkt == At(advanced.bufferSerial.packetBuffer, c)
                  written ==
                    [advanced EXCEPT !.bufferSerial.packetBuffer =
                        Put(@, c, [pkt EXCEPT !.data = Put(@, pkt.positionWrite, newChar),
                                              !.positionWrite = @ + 1])]
              IN  IF advanced.isDevice
                  THEN CHOOSE seen \in {processCharForStreamPacket(w, newChar) :
                                           w \in {written}} : TRUE
                  ELSE written
          ELSE advanced
        polled == IF stored.isDevice THEN pollRefresh(stored) ELSE stored
    IN  [polled EXCEPT !.serialTimeoutElapsed = FALSE]

\* The while loop of bufferSerialFetch over the bytes in their order; the
\* recursion halves the sequence so that its depth stays small.
RECURSIVE bufferSerialFetchLoop(_, _)
bufferSerialFetchLoop(st, bytes) ==
    IF Len(bytes) = 0 THEN st
    ELSE IF Len(bytes) = 1 THEN bufferSerialFetchByte(st, bytes[1])
    ELSE CHOOSE after \in
            {bufferSerialFetchLoop(mid, SubSeq(bytes, Len(bytes) \div 2 + 1, Len(bytes))) :
                mid \in {bufferSerialFetchLoop(st, SubSeq(bytes, 1, Len(bytes) \div 2))}} : TRUE

\* bufferSerialFetch with `bytes` available on the local transport
bufferSerialFetch(st, bytes) ==
    LET first == IF st.bufferSerial.numberOfPacketsToSend = 0
                 THEN [st EXCEPT !.bufferSerial.numberOfPacketsToSend = 1]
                 ELSE st
    IN  bufferSerialFetchLoop(first, bytes)

----------------------------------------------------------------------------
(* Channel persistence *)

getChannelNumber(st) == st.flashChannel

FlashResults == {"ok", "eraseReserved", "eraseInUse", "writeReserved", "writeInUse"}

\* setChannelNumber(channelNumber) with the outcome `rc` of flashPageErase
\* and flashWrite; the returned boolean is setChannelNumberSucceeds(rc).
setChannelNumberReportingSuccess(rc) == TRUE

setChannelNumberSucceeds(rc) == rc = "ok"

setChannelNumber(st, channelNumber, rc) ==
    LET bounded == IF channelNumber > RFDUINOGZLL_CHANNEL_LIMIT_UPPER
                   THEN RFDUINOGZLL_CHANNEL_LIMIT_UPPER ELSE channelNumber
    IN  IF rc = "eraseReserved" THEN
            IF st.isHost THEN SerialWrite(st, "Error - the flash page is reserved$$$") ELSE st
        ELSE IF rc = "eraseInUse" THEN
            IF st.isHost THEN SerialWrite(st, "Error - the flash page is used by the sketch$$$") ELSE st
        ELSE IF rc = "ok" THEN
            SerialWrite([st EXCEPT !.flashChannel = bounded], "Channel Number Set$$$")
        ELSE LET erased == [st EXCEPT !.flashChannel = FLASH_ERASED]
             IN  IF rc = "writeReserved" THEN
                     IF st.isHost
                     THEN SerialWrite(erased, "Error - the flash page is reserved$$$")
                     ELSE erased
                 ELSE IF st.isHost
                      THEN SerialWrite(erased, "Error - the flash page is used by the sketch$$$")
                      ELSE erased

----------------------------------------------------------------------------
(* The receive handler RFduinoGZLL_onReceive *)

\* sendToDevice(device, ...) on the Host, sendToHost(...) + pollRefresh on
\* the Device: the reply idiom of the handler
Reply(st, pkt) == IF st.isHost THEN Send(st, pkt) ELSE pollRefresh(Send(st, pkt))

\* The handler's locals that outlive a branch
Decided(st, willSendDataFromBufferSerial) ==
    [st |-> st, willSendDataFromBufferSerial |-> willSendDataFromBufferSerial]

onReceiveRadioCodeArmingHost(st, data, rc) ==
    LET code == At(data, 0) IN
    IF st.isWaitingForNewChannelNumber THEN
        LET cleared == pollRefresh([st EXCEPT !.isWaitingForNewChannelNumber = FALSE])
            written == setChannelNumber(cleared, code, rc)
        IN  IF setChannelNumberSucceeds(rc)
            THEN Decided(pollHost([written EXCEPT !.gzllChannel = code]), FALSE)
            ELSE Decided(written, FALSE)
    ELSE IF code = ORPM_PACKET_BAD_CHECK_SUM THEN
        Decided([st EXCEPT !.bufferSerial.numberOfPacketsSent = @ - 1], TRUE)
    ELSE IF code = ORPM_PACKET_MISSED THEN
        Decided([st EXCEPT !.bufferSerial.numberOfPacketsSent = 0], TRUE)
    ELSE IF code = ORPM_CHANGE_CHANNEL_HOST_REQUEST THEN
        Decided(Reply([st EXCEPT !.isWaitingForNewChannelNumber = TRUE],
                      <<ORPM_CHANGE_CHANNEL_DEVICE_READY>>), FALSE)
    ELSE IF code = ORPM_CHANGE_CHANNEL_DEVICE_READY THEN
        IF st.isHost
        THEN LET sent == Send(st, <<st.radioChannel % 256>>)
                 written == setChannelNumber(sent, st.radioChannel, rc)
             IN  Decided([written EXCEPT !.gzllChannel = st.radioChannel], FALSE)
        ELSE Decided(pollRefresh(Send(st, <<ORPM_CHANGE_CHANNEL_DEVICE_READY>>)), FALSE)
    ELSE Decided(Reply(st, <<ORPM_INVALID_CODE_RECEIVED>>), FALSE)

onReceiveRadioCodeIgnoringUnknown(st, data, rc) ==
    LET code == At(data, 0) IN
    IF st.isWaitingForNewChannelNumber THEN
        LET cleared == pollRefresh([st EXCEPT !.isWaitingForNewChannelNumber = FALSE])
            written == setChannelNumber(cleared, code, rc)
        IN  IF setChannelNumberSucceeds(rc)
            THEN Decided(pollHost([written EXCEPT !.gzllChannel = code]), FALSE)
            ELSE Decided(written, FALSE)
    ELSE IF code = ORPM_PACKET_BAD_CHECK_SUM THEN
        Decided([st EXCEPT !.bufferSerial.numberOfPacketsSent = @ - 1], TRUE)
    ELSE IF code = ORPM_PACKET_MISSED THEN
        Decided([st EXCEPT !.bufferSerial.numberOfPacketsSent = 0], TRUE)
    ELSE IF code = ORPM_CHANGE_CHANNEL_HOST_REQUEST THEN
        IF st.isHost
        THEN Decided(Send(st, <<ORPM_INVALID_CODE_RECEIVED>>), FALSE)
        ELSE Decided(pollRefresh(Send([st EXCEPT !.isWaitingForNewChannelNumber = TRUE],
                                      <<ORPM_CHANGE_CHANNEL_DEVICE_READY>>)), FALSE)
    ELSE IF code = ORPM_CHANGE_CHANNEL_DEVICE_READY THEN
        IF st.isHost
        THEN LET sent == Send(st, <<st.radioChannel % 256>>)
                 written == setChannelNumber(sent, st.radioChannel, rc)
             IN  Decided([written EXCEPT !.gzllChannel = st.radioChannel], FALSE)
        ELSE Decided(pollRefresh(Send(st, <<ORPM_CHANGE_CHANNEL_DEVICE_READY>>)), FALSE)
    ELSE Decided(st, FALSE)

\* len == 1, lines 1061-1144
onReceiveRadioCode(st, data, rc) ==
    LET code == At(data, 0) IN
    IF st.isWaitingForNewChannelNumber THEN
        LET cleared == pollRefresh([st EXCEPT !.isWaitingForNewChannelNumber = FALSE])
            written == setChannelNumber(cleared, code, rc)
        IN  IF setChannelNumberSucceeds(rc)
            THEN Decided(pollHost([written EXCEPT !.gzllChannel = code]), FALSE)
            ELSE Decided(written, FALSE)
    ELSE IF code = ORPM_PACKET_BAD_CHECK_SUM THEN
        Decided([st EXCEPT !.bufferSerial.numberOfPacketsSent = @ - 1], TRUE)
    ELSE IF code = ORPM_PACKET_MISSED THEN
        Decided([st EXCEPT !.bufferSerial.numberOfPacketsSent = 0], TRUE)
    ELSE IF code = ORPM_CHANGE_CHANNEL_HOST_REQUEST THEN
        IF st.isHost
        THEN Decided(Send(st, <<ORPM_INVALID_CODE_RECEIVED>>), FALSE)
        ELSE Decided(pollRefresh(Send([st EXCEPT !.isWaitingForNewChannelNumber = TRUE],
                                      <<ORPM_CHANGE_CHANNEL_DEVICE_READY>>)), FALSE)
    ELSE IF code = ORPM_CHANGE_CHANNEL_DEVICE_READY THEN
        IF st.isHost
        THEN LET sent == Send(st, <<st.radioChannel % 256>>)
                 written == setChannelNumber(sent, st.radioChannel, rc)
             IN  Decided([written EXCEPT !.gzllChannel = st.radioChannel], FALSE)
        ELSE Decided(pollRefresh(Send(st, <<ORPM_CHANGE_CHANNEL_DEVICE_READY>>)), FALSE)
    ELSE Decided(Reply(st, <<ORPM_INVALID_CODE_RECEIVED>>), FALSE)

\* bufferAddStreamPacket: one byte of the loop.  A NULL current packet is
\* dereferenced by the test of positionWrite: the radio faults.
bufferAddStreamPacketByte(st, b) ==
    IF st.halted THEN st
    ELSE IF st.currentPacketBufferStreamPacket = NULL THEN [st EXCEPT !.halted = TRUE]
    ELSE
    LET cur == At(st.bufferStreamPackets.packetBuffer, st.currentPacketBufferStreamPacket)
        advanced ==
          IF cur.positionWrite >= OPENBCI_MAX_PACKET_SIZE_BYTES THEN
              LET more == [st EXCEPT !.bufferStreamPackets.numberOfPacketsToSend = @ + 1]
              IN  IF more.bufferStreamPackets.numberOfPacketsToSend >= OPENBCI_MAX_NUMBER_OF_BUFFERS
                  THEN [more EXCEPT !.currentPacketBufferStreamPacket = NULL]
                  ELSE [more EXCEPT !.currentPacketBufferStreamPacket = @ + 1]
          ELSE st
    IN  IF advanced.currentPacketBufferStreamPacket # NULL THEN
            LET c == advanced.currentPacketBufferStreamPacket
                pkt == At(advanced.bufferStreamPackets.packetBuffer, c)
            IN  [advanced EXCEPT !.bufferStreamPackets.packetBuffer =
                    Put(@, c, [pkt EXCEPT !.data = Put(@, pkt.positionWrite, b),
                                          !.positionWrite = @ + 1])]
        ELSE advanced

RECURSIVE bufferAddStreamPacketLoop(_, _)
bufferAddStreamPacketLoop(st, bytes) ==
    IF Len(bytes) = 0 THEN st
    ELSE IF Len(bytes) = 1 THEN bufferAddStreamPacketByte(st, bytes[1])
    ELSE CHOOSE after \in
            {bufferAddStreamPacketLoop(mid, SubSeq(bytes, Len(bytes) \div 2 + 1, Len(bytes))) :
                mid \in {bufferAddStreamPacketLoop(st, SubSeq(bytes, 1, Len(bytes) \div 2))}} : TRUE

bufferAddStreamPacket(st, data, length) ==
    LET first == IF st.bufferStreamPackets.numberOfPacketsToSend = 0
                 THEN [st EXCEPT !.bufferStreamPackets.numberOfPacketsToSend = 1]
                 ELSE st
    IN  bufferAddStreamPacketLoop(first, SubSeq(data, 1, length))

\* The sequence check of lines 1165-1212: what becomes of
\* previousPacketNumber and of the radio write cursor, whether the packet is
\* accepted, whether it ends a page, and the error code otherwise.
Verdict(good, last_, prev, cursor, msg) ==
    [goodToAddPacketToRadioBuffer |-> good, gotLastPacket |-> last_,
     previousPacketNumber |-> prev, bufferPositionWriteRadio |-> cursor, msg |-> msg]

checkPacketKeepingStateOnMiss(st, data, len) ==
    LET packetNumber == byteIdGetPacketNumber(At(data, 0))
        prev == st.previousPacketNumber
        cursor == st.bufferPositionWriteRadio
    IN  IF checkSumsAreEqual(data, len) THEN
            IF packetNumber = 0 /\ prev = 0 THEN Verdict(TRUE, TRUE, prev, cursor, NULL)
            ELSE IF packetNumber > 0 /\ prev = 0
                 THEN Verdict(TRUE, FALSE, packetNumber, cursor, NULL)
            ELSE IF prev - packetNumber = 1
                 THEN Verdict(TRUE, packetNumber = 0, packetNumber, cursor, NULL)
            ELSE Verdict(FALSE, FALSE, prev, cursor, ORPM_PACKET_MISSED)
        ELSE Verdict(FALSE, FALSE, prev, cursor, ORPM_PACKET_BAD_CHECK_SUM)

checkPacketResettingOnBadCheckSum(st, data, len) ==
    LET packetNumber == byteIdGetPacketNumber(At(data, 0))
        prev == st.previousPacketNumber
        cursor == st.bufferPositionWriteRadio
    IN  IF checkSumsAreEqual(data, len) THEN
            IF packetNumber = 0 /\ prev = 0 THEN Verdict(TRUE, TRUE, prev, cursor, NULL)
            ELSE IF packetNumber > 0 /\ prev = 0
                 THEN Verdict(TRUE, FALSE, packetNumber, cursor, NULL)
            ELSE IF prev - packetNumber = 1
                 THEN Verdict(TRUE, packetNumber = 0, packetNumber, cursor, NULL)
            ELSE Verdict(FALSE, FALSE, 0, 0, ORPM_PACKET_MISSED)
        ELSE Verdict(FALSE, FALSE, 0, 0, ORPM_PACKET_BAD_CHECK_SUM)

checkPacket(st, data, len) ==
    LET packetNumber == byteIdGetPacketNumber(At(data, 0))
        prev == st.previousPacketNumber
        cursor == st.bufferPositionWriteRadio
    IN  IF checkSumsAreEqual(data, len) THEN
            IF packetNumber = 0 /\ prev = 0 THEN Verdict(TRUE, TRUE, prev, cursor, NULL)
            ELSE IF packetNumber > 0 /\ prev = 0
                 THEN Verdict(TRUE, FALSE, packetNumber, cursor, NULL)
            ELSE IF prev - packetNumber = 1
                 THEN Verdict(TRUE, packetNumber = 0, packetNumber, cursor, NULL)
            ELSE Verdict(FALSE, FALSE, 0, 0, ORPM_PACKET_MISSED)
        ELSE Verdict(FALSE, FALSE, prev, cursor, ORPM_PACKET_BAD_CHECK_SUM)

\* The store of lines 1231-1232 without the capacity test of line 1230
bufferRadioAppendByteUnchecked(st, b) ==
    [st EXCEPT !.bufferRadio = Put(@, st.bufferPositionWriteRadio, b),
               !.bufferPositionWriteRadio = @ + 1]

\* The loop of lines 1229-1234: bytes 1..len-1 into bufferRadio, dropped
\* once the cursor has reached the capacity
bufferRadioAppendByte(st, b) ==
    IF st.bufferPositionWriteRadio < OPENBCI_BUFFER_LENGTH
    THEN [st EXCEPT !.bufferRadio = Put(@, st.bufferPositionWriteRadio, b),
                    !.bufferPositionWriteRadio = @ + 1]
    ELSE st

RECURSIVE bufferRadioAppend(_, _)
bufferRadioAppend(st, bytes) ==
    IF Len(bytes) = 0 THEN st
    ELSE IF Len(bytes) = 1 THEN bufferRadioAppendByte(st, bytes[1])
    ELSE CHOOSE after \in
            {bufferRadioAppend(mid, SubSeq(bytes, Len(bytes) \div 2 + 1, Len(bytes))) :
                mid \in {bufferRadioAppend(st, SubSeq(bytes, 1, Len(bytes) \div 2))}} : TRUE

\* Lines 1243-1255: after an accepted packet, what to do with bufferSerial
afterAcceptedPacket(st) ==
    IF st.bufferSerial.numberOfPacketsSent < st.bufferSerial.numberOfPacketsToSend THEN
        Decided(st, theLastTimeNewSerialDataWasAvailableWasLongEnough(st))
    ELSE IF st.bufferSerial.numberOfPacketsSent = st.bufferSerial.numberOfPacketsToSend
            /\ st.bufferSerial.numberOfPacketsToSend # 0 THEN
        Decided(bufferCleanSerial(st, st.bufferSerial.numberOfPacketsSent), FALSE)
    ELSE Decided(IF st.isDevice THEN pollHost(st) ELSE st, FALSE)

\* len > 1, lines 1145-1269
onReceiveDataPacket(st, data, len) ==
    LET v == checkPacket(st, data, len)
        checked == [st EXCEPT !.previousPacketNumber = v.previousPacketNumber,
                              !.bufferPositionWriteRadio = v.bufferPositionWriteRadio]
    IN  IF v.goodToAddPacketToRadioBuffer THEN
            LET added ==
                  IF byteIdGetIsStream(At(data, 0))
                  THEN bufferAddStreamPacket(checked, data, len)
                  ELSE LET stored == bufferRadioAppend(checked, SubSeq(data, 2, len))
                       IN  IF v.gotLastPacket
                           THEN [stored EXCEPT
                                   !.isTheHostsRadioBufferFilledWithAllThePacketsFromTheDevice = TRUE,
                                   !.isTheDevicesRadioBufferFilledWithAllThePacketsFromTheHost = TRUE]
                           ELSE stored
            IN  CHOOSE d \in {afterAcceptedPacket(stored) : stored \in {added}} : TRUE
        ELSE Decided(Reply(checked, <<v.msg>>), FALSE)

\* len == 0, lines 1270-1293
onReceiveNullAck(st) ==
    IF st.isWaitingForNewChannelNumberConfirmation THEN
        Decided(SerialWrite([st EXCEPT !.isWaitingForNewChannelNumberConfirmation = FALSE],
                            OPENBCI_HOST_CHANNEL_CHANGE_SUCCESS), FALSE)
    ELSE IF st.bufferSerial.numberOfPacketsSent < st.bufferSerial.numberOfPacketsToSend THEN
        Decided(st, theLastTimeNewSerialDataWasAvailableWasLongEnough(st))
    ELSE IF st.bufferSerial.numberOfPacketsSent = st.bufferSerial.numberOfPacketsToSend
            /\ st.bufferSerial.numberOfPacketsToSend # 0 THEN
        Decided(bufferCleanSerial(st, st.bufferSerial.numberOfPacketsSent), FALSE)
    ELSE Decided(st, FALSE)

\* Lines 1050-1293: everything before the send
onReceiveDecide(st, data, rc) ==
    LET len == Len(data) IN
    IF len = 1 THEN onReceiveRadioCode(st, data, rc)
    ELSE IF len > 1 THEN onReceiveDataPacket(st, data, len)
    ELSE onReceiveNullAck(st)

----------------------------------------------------------------------------
(* The send at the end of the handler, lines 1296-1369 *)

\* What the program does not determine: `ub` the outcome of checkSumMake
\* over a length <= 0, `wild` the memory read as packetBuffer[-1], `byte2`
\* the memory read as data[2] of a received packet shorter than 3 bytes,
\* `rc` the outcome of the flash.
Oracle(ub, wild, byte2, rc) == [ub |-> ub, wild |-> wild, byte2 |-> byte2, rc |-> rc]

PacketBytes(pkt) ==
    IF pkt.positionWrite <= 0 THEN <<>> ELSE SubSeq(pkt.data, 1, pkt.positionWrite)

\* The slot (bufferSerial.packetBuffer + numberOfPacketsSent)
SlotToSend(st, wild) ==
    LET idx == st.bufferSerial.numberOfPacketsSent
    IN  IF idx \in 0..(OPENBCI_MAX_NUMBER_OF_BUFFERS - 1)
        THEN At(st.bufferSerial.packetBuffer, idx)
        ELSE wild

packetNumberToSendCountingUp(st) == st.bufferSerial.numberOfPacketsSent

packetNumberToSend(st) ==
    st.bufferSerial.numberOfPacketsToSend - st.bufferSerial.numberOfPacketsSent - 1

\* Lines 1306-1366: the role dispatch, `pkt` the stamped slot, `rx` the
\* packet that was received
onReceiveDispatch(st, pkt, rx, byte2) ==
    LET packetNumber == packetNumberToSend(st)
        forward == Sent(Reply(st, PacketBytes(pkt)),
                        st.bufferSerial.numberOfPacketsSent, PacketBytes(pkt))
        rx2 == IF Len(rx) >= 3 THEN At(rx, 2) ELSE byte2
    IN  IF ~st.isHost THEN forward
        ELSE IF st.bufferSerial.numberOfPacketsToSend = 1 /\ packetNumber = 0 THEN
            IF pkt.positionWrite = 2 THEN
                IF At(pkt.data, 1) = OPENBCI_HOST_TIME_SYNC
                THEN SerialWrite(forward, OPENBCI_HOST_TIME_SYNC_ACK)
                ELSE IF At(pkt.data, 1) = OPENBCI_HOST_CHANNEL_QUERY
                THEN bufferCleanSerial(SerialWrite(st, getChannelNumber(st)), 1)
                ELSE forward
            ELSE IF pkt.positionWrite = 3 THEN
                IF At(pkt.data, 1) = OPENBCI_HOST_CHANNEL_CHANGE THEN
                    IF rx2 > RFDUINOGZLL_CHANNEL_LIMIT_UPPER
                    THEN SerialWrite(st, OPENBCI_HOST_CHANNEL_CHANGE_INVALID)
                    ELSE Send([st EXCEPT !.previousRadioChannel = getChannelNumber(st),
                                         !.radioChannel = At(pkt.data, 2)],
                              <<ORPM_CHANGE_CHANNEL_HOST_REQUEST>>)
                ELSE forward
            ELSE forward
        ELSE forward

onReceiveSendTwice(st, rx, o) ==
    LET idx == st.bufferSerial.numberOfPacketsSent
        slot == SlotToSend(st, o.wild)
        byteId == byteIdMake(FALSE, packetNumberToSend(st), Tail(slot.data),
                             slot.positionWrite - 1, o.ub)
        pkt == [slot EXCEPT !.data = Put(@, 0, byteId)]
        stamped == IF idx \in 0..(OPENBCI_MAX_NUMBER_OF_BUFFERS - 1)
                   THEN [st EXCEPT !.bufferSerial.packetBuffer = Put(@, idx, pkt)]
                   ELSE st
        dispatched == Reply(onReceiveDispatch(stamped, pkt, rx, o.byte2), PacketBytes(pkt))
    IN  IF byteId = NULL THEN [st EXCEPT !.halted = TRUE]
        ELSE [dispatched EXCEPT !.bufferSerial.numberOfPacketsSent = @ + 1]

\* A faulting checksum walk stops the radio inside the handler.
onReceiveSend(st, rx, o) ==
    LET idx == st.bufferSerial.numberOfPacketsSent
        slot == SlotToSend(st, o.wild)
        byteId == byteIdMake(FALSE, packetNumberToSend(st), Tail(slot.data),
                             slot.positionWrite - 1, o.ub)
        pkt == [slot EXCEPT !.data = Put(@, 0, byteId)]
        stamped == IF idx \in 0..(OPENBCI_MAX_NUMBER_OF_BUFFERS - 1)
                   THEN [st EXCEPT !.bufferSerial.packetBuffer = Put(@, idx, pkt)]
                   ELSE st
        dispatched == onReceiveDispatch(stamped, pkt, rx, o.byte2)
    IN  IF byteId = NULL THEN [st EXCEPT !.halted = TRUE]
        ELSE [dispatched EXCEPT !.bufferSerial.numberOfPacketsSent = @ + 1]

\* The whole handler, on the packet `data` (a sequence of 0..32 bytes)
RFduinoGZLL_onReceive(st, data, o) ==
    CHOOSE after \in
      {IF d.willSendDataFromBufferSerial THEN onReceiveSend(d.st, data, o) ELSE d.st :
          d \in {onReceiveDecide(Begin(st), data, o.rc)}} : TRUE

----------------------------------------------------------------------------
(* Main-loop operations *)

\* sendTheDevicesFirstPacketToTheHost, lines 435-463
sendTheDevicesFirstPacketToTheHost(st0, ub) ==
    LET st == Begin(st0)
        first == At(st.bufferSerial.packetBuffer, 0)
        packetNumber == st.bufferSerial.numberOfPacketsToSend - 1
        byteId == byteIdMake(FALSE, packetNumber, Tail(first.data), first.positionWrite - 1, ub)
        pkt == [first EXCEPT !.data = Put(@, 0, byteId)]
        stamped == [st EXCEPT !.bufferSerial.packetBuffer = Put(@, 0, pkt)]
        echoed == IF At(pkt.data, 1) = 0
                  THEN SerialWrite(stamped, getChannelNumber(stamped)) ELSE stamped
    IN  IF st.bufferSerial.numberOfPacketsToSend > 0 /\ st.bufferSerial.numberOfPacketsSent = 0
        THEN IF byteId = NULL THEN [st EXCEPT !.halted = TRUE]
             ELSE pollRefresh([Sent(Send(echoed, PacketBytes(pkt)), 0, PacketBytes(pkt))
                                 EXCEPT !.bufferSerial.numberOfPacketsSent = 1])
        ELSE st

byteIdMakeStreamPacketTypeHighNibble(st) == st.streamPacketBuffer.typeByte \div 16

byteIdMakeStreamPacketType(st) == st.streamPacketBuffer.typeByte % 16

\* sendStreamPacketToTheHost, lines 488-508
sendStreamPacketToTheHost(st0) ==
    LET st == Begin(st0)
        spb == st.streamPacketBuffer
        byteId == byteIdMake(TRUE, byteIdMakeStreamPacketType(st), Tail(spb.data),
                             OPENBCI_MAX_DATA_BYTES_IN_PACKET, 0)
        data == Put(spb.data, 0, byteId)
        sent == Send([st EXCEPT !.streamPacketBuffer.data = data],
                     SubSeq(data, 1, OPENBCI_MAX_PACKET_SIZE_BYTES))
    IN  pollRefresh(bufferResetStreamPacketBuffer(
            bufferCleanSerial(sent, sent.bufferSerial.numberOfPacketsToSend)))

\* What Serial.println() adds
LineEnd == <<13, 10>>

\* writeTheHostsRadioBufferToThePC and writeTheDevicesRadioBufferToThePic,
\* lines 300-312 and 613-625: Serial.print of a char writes that byte.
writeTheRadioBufferToSerial(st0) ==
    LET st == Begin(st0)
        written == SerialWriteAll(st, SubSeq(st.bufferRadio, 1, st.bufferPositionWriteRadio))
    IN  bufferCleanRadio(IF st.debugMode THEN SerialWriteAll(written, LineEnd) ELSE written)

pollHostWhenDue(st0) == pollHost(Begin(st0))


\* writeStreamPacket(data) with data = packetBuffer[0].data + offset: the
\* pointer of line 344 advances by bytes inside packet 0, not by packets;
\* bytes past data[31] are outside the array and read as `wildByte`.
StreamByteAt(st, i, wildByte) ==
    LET first == At(st.bufferStreamPackets.packetBuffer, 0)
    IN  IF i < OPENBCI_MAX_PACKET_SIZE_BYTES THEN At(first.data, i) ELSE wildByte

writeStreamPacket(st, offset, wildByte) ==
    LET body == [i \in 1..OPENBCI_MAX_DATA_BYTES_IN_PACKET |->
                    StreamByteAt(st, offset + i, wildByte)]
        stop == outputGetStopByteFromByteId(StreamByteAt(st, offset, wildByte))
    IN  SerialWrite(SerialWriteAll(SerialWrite(st, OPENBCI_STREAM_BYTE_START), body), stop)

RECURSIVE writeStreamPacketsLoop(_, _)
writeStreamPacketsLoop(st, wildByte) ==
    IF st.bufferStreamPackets.numberOfPacketsToSend > st.bufferStreamPackets.numberOfPacketsSent
    THEN CHOOSE after \in {writeStreamPacketsLoop(next, wildByte) :
            next \in {[writeStreamPacket(st, st.bufferStreamPackets.numberOfPacketsSent, wildByte)
                         EXCEPT !.bufferStreamPackets.numberOfPacketsSent = @ + 1]}} : TRUE
    ELSE st

\* writeTheHostsStreamPacketBufferToThePC, lines 339-353
writeTheHostsStreamPacketBufferToThePC(st0, wildByte) ==
    LET written == writeStreamPacketsLoop(Begin(st0), wildByte)
    IN  bufferCleanStreamPackets(written, written.bufferStreamPackets.numberOfPacketsToSend)

----------------------------------------------------------------------------
(* Inputs *)

MaxOps == 3
MaxPacketNumber == 2

Pattern(len, seed) == [i \in 1..len |-> ((i + seed) % 60) + 1]

\* A well-formed radio packet: the byteId of the payload, then the payload
MakePacket(isStream, packetNumber, payload) ==
    <<byteIdMake(isStream, packetNumber, payload, Len(payload), 0)>> \o payload

\* Byte i (C index) of pkt with bit k flipped
Corrupt(pkt, i, k) == Put(pkt, i, FlipBit(At(pkt, i), k))

StreamFrame(type) ==
    <<OPENBCI_STREAM_PACKET_HEAD>> \o Pattern(OPENBCI_MAX_DATA_BYTES_IN_PACKET, 0)
        \o <<240 + type>>

SerialInputs(p) ==
    {Pattern(1, 0), Pattern(OPENBCI_MAX_PACKET_SIZE_BYTES, 0),
     Pattern(OPENBCI_MAX_DATA_BYTES_IN_PACKET * (OPENBCI_MAX_NUMBER_OF_BUFFERS - 1) + 1, 0)}
    \cup (IF p = "Host"
          THEN {<<OPENBCI_HOST_CHANNEL_QUERY>>, <<OPENBCI_HOST_TIME_SYNC>>,
                <<OPENBCI_HOST_CHANNEL_CHANGE, 12>>, <<OPENBCI_HOST_CHANNEL_CHANGE, 200>>}
          ELSE {StreamFrame(3), <<0>>})

ControlCodes ==
    {ORPM_INVALID_CODE_RECEIVED, ORPM_PACKET_BAD_CHECK_SUM, ORPM_PACKET_MISSED,
     ORPM_DEVICE_SERIAL_OVERFLOW,
     ORPM_CHANGE_CHANNEL_HOST_REQUEST, ORPM_CHANGE_CHANNEL_DEVICE_READY, 12, 200}

\* The payload carried by the test packet numbered n
Payload(n) == Pattern(IF n = 1 THEN OPENBCI_MAX_DATA_BYTES_IN_PACKET ELSE n + 1, 3 * n)

GoodPackets ==
    {MakePacket(FALSE, n, Payload(n)) : n \in 0..MaxPacketNumber}
    \cup {MakePacket(TRUE, t, Pattern(OPENBCI_MAX_DATA_BYTES_IN_PACKET, 9)) : t \in {0, 1}}

BadPackets == {Corrupt(MakePacket(FALSE, 1, Pattern(2, 6)), 1, 0)}

RadioInputs == {<<>>} \cup {<<c>> : c \in ControlCodes} \cup GoodPackets \cup BadPackets

UBOutcomes == 0..7 \cup {NULL}

WildPackets ==
    {[data |-> Zeros(OPENBCI_MAX_PACKET_SIZE_BYTES), positionRead |-> 0, positionWrite |-> w]
        : w \in {0, 1, 2}}

WildBytes == {0, 255}

NoOracle == Oracle(0, NewPacketBuffer, 0, "ok")

\* The choices the handler's run on `data` in state st can depend on
Oracles(st, data) ==
    LET rcs == IF Len(data) = 1
                  /\ (st.isWaitingForNewChannelNumber
                      \/ (st.isHost /\ At(data, 0) = ORPM_CHANGE_CHANNEL_DEVICE_READY))
               THEN FlashResults ELSE {"ok"}
        d == onReceiveDecide(Begin(st), data, "ok")
        will == d.willSendDataFromBufferSerial
        idx == d.st.bufferSerial.numberOfPacketsSent
        wilds == IF will /\ idx \notin 0..(OPENBCI_MAX_NUMBER_OF_BUFFERS - 1)
                 THEN WildPackets ELSE {NewPacketBuffer}
        byte2s == IF will /\ d.st.isHost /\ Len(data) < 3
                     /\ d.st.bufferSerial.numberOfPacketsToSend = 1 /\ idx = 0
                     /\ At(d.st.bufferSerial.packetBuffer, 0).positionWrite = 3
                     /\ At(At(d.st.bufferSerial.packetBuffer, 0).data, 1) = OPENBCI_HOST_CHANNEL_CHANGE
                  THEN WildBytes ELSE {0}
    IN  {Oracle(ub, w, b, rc) :
            ub \in (IF will /\ \E w2 \in wilds : SlotToSend(d.st, w2).positionWrite <= 1
                    THEN UBOutcomes ELSE {0}),
            w \in wilds, b \in byte2s, rc \in rcs}

----------------------------------------------------------------------------
(* Actions *)

linked == DOMAIN radio = Radios

Op(op, role, data) == [op |-> op, role |-> role, data |-> data]

\* The radio object of role p becomes st: its transmissions go on the air
\* and the Host's writes into the log when both peers run.
Commit(p, after, hostQueue, deviceQueue) ==
    \E st \in {after} :
        /\ radio' = [radio EXCEPT ![p] = st]
        /\ toHost' = IF linked /\ p = "Device" THEN hostQueue \o st.tx ELSE hostQueue
        /\ toDevice' = IF linked /\ p = "Host" THEN deviceQueue \o st.tx ELSE deviceQueue
        /\ pcLog' = IF linked /\ p = "Host" THEN pcLog \o st.out ELSE pcLog

Running(p) == p \in DOMAIN radio /\ ~radio[p].halted

\* History: the packet numbers of the non-stream packets the handler has
\* accepted since the write cursor of bufferRadio was last put back to 0
Logged(pre, data, after) ==
    CHOOSE logged \in
      {[post EXCEPT !.accepted =
          IF post.bufferPositionWriteRadio = 0 THEN <<>>
          ELSE IF Len(data) > 1 /\ ~byteIdGetIsStream(At(data, 0))
                  /\ checkPacket(pre, data, Len(data)).goodToAddPacketToRadioBuffer
               THEN Append(pre.accepted, byteIdGetPacketNumber(At(data, 0)))
               ELSE pre.accepted] : post \in {after}} : TRUE

\* The main loop finds bytes on the local transport and ingests them
\* (getSerialDataFromPCAndPutItInHostsSerialBuffer,
\* getSerialDataFromPicAndPutItInTheDevicesSerialBuffer).
Fetch(p) ==
    /\ Running(p) /\ ~linked /\ budget > 0
    /\ \E bytes \in SerialInputs(p) :
          /\ Commit(p, bufferSerialFetch(Begin(radio[p]), bytes), toHost, toDevice)
          /\ last' = Op("fetch", p, bytes)
    /\ budget' = budget - 1
    /\ UNCHANGED <<acksOwed, message>>

\* A radio packet arrives from the environment
ReceiveWith(p, inputs) ==
    /\ Running(p) /\ ~linked /\ budget > 0
    /\ \E data \in inputs : \E o \in Oracles(radio[p], data) :
          /\ Commit(p, Logged(radio[p], data, RFduinoGZLL_onReceive(radio[p], data, o)),
                    toHost, toDevice)
          /\ last' = Op("receive", p, data)
    /\ budget' = budget - 1
    /\ UNCHANGED <<acksOwed, message>>

Receive(p) == ReceiveWith(p, RadioInputs)

\* Time passes: long enough for the stream delay alone (level 1), also for
\* the serial timeout (2), also for the poll interval (3)
TimePasses(p, levels) ==
    /\ Running(p)
    /\ \E level \in levels :
          LET st == [radio[p] EXCEPT
                        !.streamTimeoutElapsed = TRUE,
                        !.serialTimeoutElapsed = @ \/ level >= 2,
                        !.pollTimeoutElapsed = @ \/ (level >= 3 /\ radio[p].isDevice)]
          IN  /\ st # radio[p]
              /\ radio' = [radio EXCEPT ![p] = st]
    /\ last' = Op("time", p, <<>>)
    /\ UNCHANGED <<toHost, toDevice, acksOwed, pcLog, message, budget>>

\* Device main loop: stream packet waiting and its delay passed
SendStreamPacket(p) ==
    /\ Running(p) /\ radio[p].isDevice
    /\ isAStreamPacketWaitingForLaunch(radio[p])
    /\ hasEnoughTimePassedToLaunchStreamPacket(radio[p])
    /\ Commit(p, sendStreamPacketToTheHost(radio[p]), toHost, toDevice)
    /\ last' = Op("stream", p, <<>>)
    /\ UNCHANGED <<acksOwed, message, budget>>

\* Device main loop: data in the serial Buffer and the serial timeout passed
SendFirstPacket(p) ==
    /\ Running(p) /\ radio[p].isDevice
    /\ thereIsDataInSerialBuffer(radio[p])
    /\ theLastTimeNewSerialDataWasAvailableWasLongEnough(radio[p])
    /\ radio[p].bufferSerial.numberOfPacketsToSend > 0
    /\ radio[p].bufferSerial.numberOfPacketsSent = 0
    /\ \E ub \in (IF At(radio[p].bufferSerial.packetBuffer, 0).positionWrite <= 1
                  THEN UBOutcomes ELSE {0}) :
          Commit(p, sendTheDevicesFirstPacketToTheHost(radio[p], ub), toHost, toDevice)
    /\ last' = Op("first", p, <<>>)
    /\ UNCHANGED <<acksOwed, message, budget>>

\* Main loop: the inbound radio buffer is flagged full for this role
FlushRadioBuffer(p) ==
    /\ Running(p)
    /\ IF radio[p].isHost
       THEN radio[p].isTheHostsRadioBufferFilledWithAllThePacketsFromTheDevice
       ELSE radio[p].isTheDevicesRadioBufferFilledWithAllThePacketsFromTheHost
    /\ Commit(p, Logged(radio[p], <<>>, writeTheRadioBufferToSerial(radio[p])),
              toHost, toDevice)
    /\ last' = Op("flush", p, <<>>)
    /\ UNCHANGED <<acksOwed, message, budget>>

\* Host main loop: stream packets wait for the PC
FlushStreamPackets(p) ==
    /\ Running(p) /\ radio[p].isHost
    /\ doesTheHostHaveAStreamPacketToSendToPC(radio[p])
    /\ \E wb \in (IF radio[p].bufferStreamPackets.numberOfPacketsToSend > 1
                  THEN WildBytes ELSE {0}) :
          Commit(p, writeTheHostsStreamPacketBufferToThePC(radio[p], wb), toHost, toDevice)
    /\ last' = Op("flushStream", p, <<>>)
    /\ UNCHANGED <<acksOwed, message, budget>>

\* Device main loop, didPicSendDeviceSerialData with nothing to read
PollHost(p) ==
    /\ Running(p) /\ radio[p].isDevice
    /\ pollNow(radio[p])
    /\ Commit(p, pollHostWhenDue(radio[p]), toHost, toDevice)
    /\ last' = Op("poll", p, <<>>)
    /\ UNCHANGED <<acksOwed, message, budget>>

MainLoop(p) ==
    \/ SendStreamPacket(p)
    \/ SendFirstPacket(p)
    \/ FlushRadioBuffer(p)
    \/ FlushStreamPackets(p)

----------------------------------------------------------------------------
(* One radio object of either role, packets and bytes from the environment *)

Init ==
    /\ \E p \in Radios, debugMode \in BOOLEAN : radio = [q \in {p} |-> NewRadio(p, debugMode)]
    /\ last = Op("begin", "none", <<>>)
    /\ toHost = <<>>
    /\ toDevice = <<>>
    /\ acksOwed = 0
    /\ pcLog = <<>>
    /\ message = <<>>
    /\ budget = MaxOps

Next ==
    \E p \in Radios :
        \/ Fetch(p)
        \/ Receive(p)
        \/ TimePasses(p, 1..2)
        \/ MainLoop(p)

Spec == Init /\ [][Next]_vars

----------------------------------------------------------------------------
(* Properties of the receive handler and of the serial Buffer, under Spec *)

\* The step is an invocation of the receive handler of radio p, on last'.data
Handled(p) == p \in DOMAIN radio /\ last'.op = "receive" /\ last'.role = p

WasHandled(p) == p \in DOMAIN radio /\ last.op = "receive" /\ last.role = p

\* The packet the send of lines 1296-1304 makes of slot idx of bufferSerial
Stamped(st, idx) ==
    LET slot == At(st.bufferSerial.packetBuffer, idx)
        packetNumber == st.bufferSerial.numberOfPacketsToSend - idx - 1
    IN  <<byteIdMake(FALSE, packetNumber, Tail(slot.data), slot.positionWrite - 1, 0)>>
            \o SubSeq(slot.data, 2, slot.positionWrite)

\* The Host holds a one-packet page that it interprets itself, lines 1317-1348
HoldsHostCommand(st) ==
    LET first == At(st.bufferSerial.packetBuffer, 0)
    IN  /\ st.isHost
        /\ st.bufferSerial.numberOfPacketsToSend = 1
        /\ \/ first.positionWrite = 2 /\ At(first.data, 1) = OPENBCI_HOST_CHANNEL_QUERY
           \/ first.positionWrite = 3 /\ At(first.data, 1) = OPENBCI_HOST_CHANNEL_CHANGE

\* C3: in every reachable state the serial Buffer satisfies
\* 0 <= packetsSent <= packetsToSend <= N.
C3_CountersOrdered ==
    \A p \in DOMAIN radio :
        /\ 0 <= radio[p].bufferSerial.numberOfPacketsSent
        /\ radio[p].bufferSerial.numberOfPacketsSent
              <= radio[p].bufferSerial.numberOfPacketsToSend
        /\ radio[p].bufferSerial.numberOfPacketsToSend <= OPENBCI_MAX_NUMBER_OF_BUFFERS

OutOfOrder(st, data) ==
    /\ Len(data) > 1
    /\ checkSumsAreEqual(data, Len(data))
    /\ st.previousPacketNumber # 0
    /\ st.previousPacketNumber - byteIdGetPacketNumber(At(data, 0)) # 1

\* C4: a packet of more than one byte with a valid checksum and a packet
\* number p, received while previousPacketNumber = q with q # 0 and
\* q - p # 1, is rejected: bufferRadio is left as it was, the one radio reply
\* is the 1-byte PACKET_MISSED code, and the write cursor of bufferRadio and
\* previousPacketNumber are both 0 afterwards.
C4_MissedPacketRejected ==
    [][\A p \in Radios :
          Handled(p) /\ OutOfOrder(radio[p], last'.data) =>
              /\ radio'[p].tx = <<<<ORPM_PACKET_MISSED>>>>
              /\ radio'[p].bufferRadio = radio[p].bufferRadio
              /\ radio'[p].bufferStreamPackets = radio[p].bufferStreamPackets
              /\ radio'[p].bufferPositionWriteRadio = 0
              /\ radio'[p].previousPacketNumber = 0]_vars

C4_Witness ==
    \E p \in DOMAIN radio :
        /\ WasHandled(p) /\ Len(last.data) > 1
        /\ checkSumsAreEqual(last.data, Len(last.data))
        /\ radio[p].tx = <<<<ORPM_PACKET_MISSED>>>>
        /\ radio[p].previousPacketNumber = 0

\* C5: a packet of more than one byte whose checksum does not match its
\* payload gets one radio reply, the 1-byte BAD_CHECKSUM code, and leaves
\* previousPacketNumber, bufferRadio and its write cursor, the stream-packet
\* buffer, both ready-to-flush flags and packetsSent as they were; no
\* buffered data packet is sent.
C5_BadCheckSumLeavesReassemblyState ==
    [][\A p \in Radios :
          Handled(p) /\ Len(last'.data) > 1
                /\ ~checkSumsAreEqual(last'.data, Len(last'.data)) =>
              /\ radio'[p].tx = <<<<ORPM_PACKET_BAD_CHECK_SUM>>>>
              /\ radio'[p].previousPacketNumber = radio[p].previousPacketNumber
              /\ radio'[p].bufferRadio = radio[p].bufferRadio
              /\ radio'[p].bufferPositionWriteRadio = radio[p].bufferPositionWriteRadio
              /\ radio'[p].bufferStreamPackets = radio[p].bufferStreamPackets
              /\ radio'[p].currentPacketBufferStreamPacket
                    = radio[p].currentPacketBufferStreamPacket
              /\ radio'[p].isTheHostsRadioBufferFilledWithAllThePacketsFromTheDevice
                    = radio[p].isTheHostsRadioBufferFilledWithAllThePacketsFromTheDevice
              /\ radio'[p].isTheDevicesRadioBufferFilledWithAllThePacketsFromTheHost
                    = radio[p].isTheDevicesRadioBufferFilledWithAllThePacketsFromTheHost
              /\ radio'[p].bufferSerial = radio[p].bufferSerial]_vars

C5_Witness ==
    \E p \in DOMAIN radio :
        /\ WasHandled(p) /\ Len(last.data) > 1
        /\ ~checkSumsAreEqual(last.data, Len(last.data))
        /\ radio[p].tx = <<<<ORPM_PACKET_BAD_CHECK_SUM>>>>
        /\ radio[p].previousPacketNumber # 0
        /\ radio[p].bufferPositionWriteRadio > 0

Raised(p) ==
    \/ /\ ~radio[p].isTheHostsRadioBufferFilledWithAllThePacketsFromTheDevice
       /\ radio'[p].isTheHostsRadioBufferFilledWithAllThePacketsFromTheDevice
    \/ /\ ~radio[p].isTheDevicesRadioBufferFilledWithAllThePacketsFromTheHost
       /\ radio'[p].isTheDevicesRadioBufferFilledWithAllThePacketsFromTheHost

CountsDownToZero(numbers) ==
    /\ Len(numbers) >= 1
    /\ \A i \in 1..Len(numbers) : numbers[i] = Len(numbers) - i

\* C7: the ready-to-flush flags are raised only by a handler invocation that
\* accepts a non-stream packet numbered 0, and then the packets accepted
\* since bufferRadio was last reset are numbered k, k-1, ..., 1, 0.
C7_PagesCompleteWithoutGap ==
    [][\A p \in DOMAIN radio :
          Raised(p) =>
              /\ Handled(p) /\ Len(last'.data) > 1
              /\ ~byteIdGetIsStream(At(last'.data, 0))
              /\ byteIdGetPacketNumber(At(last'.data, 0)) = 0
              /\ checkPacket(radio[p], last'.data, Len(last'.data)).goodToAddPacketToRadioBuffer
              /\ CountsDownToZero(radio'[p].accepted)]_vars

\* C8: a radio that is not waiting for a new channel number and has last
\* sent the packet of slot i of its page (packetsSent = i + 1) answers the 1-byte
\* BAD_CHECKSUM code by sending that packet again: the same bytes (header,
\* payload and length), slot i unchanged, packetsSent = i + 1 afterwards.
C8_BadCheckSumResendsSamePacket ==
    [][\A p \in DOMAIN radio :
          LET st == radio[p]
              i == st.bufferSerial.numberOfPacketsSent - 1
          IN  Handled(p) /\ last'.data = <<ORPM_PACKET_BAD_CHECK_SUM>>
                /\ ~st.isWaitingForNewChannelNumber
                /\ i >= 0 /\ i < st.bufferSerial.numberOfPacketsToSend
                /\ st.lastTx.slot = i =>
                  /\ radio'[p].tx = <<st.lastTx.bytes>>
                  /\ At(radio'[p].bufferSerial.packetBuffer, i)
                        = At(st.bufferSerial.packetBuffer, i)
                  /\ radio'[p].bufferSerial.numberOfPacketsSent = i + 1]_vars

MissedWithPage(p) ==
    /\ Handled(p) /\ last'.data = <<ORPM_PACKET_MISSED>>
    /\ ~radio[p].isWaitingForNewChannelNumber
    /\ radio[p].bufferSerial.numberOfPacketsToSend >= 1

InterpretsCommand(p) == radio'[p].tx \in {<<>>, <<<<ORPM_CHANGE_CHANNEL_HOST_REQUEST>>>>}

RestartsPage(p) ==
    /\ radio'[p].tx = <<Stamped(radio[p], 0)>>
    /\ radio'[p].bufferSerial.numberOfPacketsSent = 1

\* C9: a radio that is not waiting for a new channel number and holds a page
\* of packetsToSend >= 1 packets answers the 1-byte PACKET_MISSED code by
\* sending slot 0 numbered packetsToSend - 1; packetsSent = 1 afterwards.
C9_Original == [][\A p \in DOMAIN radio : MissedWithPage(p) => RestartsPage(p)]_vars

\* C9 (amended): the same, unless the radio is the Host and the page is one
\* packet holding the 1-byte channel-query or the 2-byte channel-change
\* command: the Host interprets that page and sends no packet of it.
C9_MissedRestartsPage ==
    [][\A p \in DOMAIN radio :
          MissedWithPage(p) =>
              IF HoldsHostCommand(radio[p]) THEN InterpretsCommand(p) ELSE RestartsPage(p)]_vars

C9_Witness ==
    \E p \in DOMAIN radio :
        /\ WasHandled(p) /\ last.data = <<ORPM_PACKET_MISSED>>
        /\ radio[p].bufferSerial.numberOfPacketsToSend >= 2
        /\ radio[p].bufferSerial.numberOfPacketsSent = 1
        /\ Len(radio[p].tx) = 1
        /\ byteIdGetPacketNumber(At(radio[p].tx[1], 0))
              = radio[p].bufferSerial.numberOfPacketsToSend - 1

AckWithPacketsLeft(p) ==
    /\ Handled(p) /\ last'.data = <<>>
    /\ radio[p].bufferSerial.numberOfPacketsSent < radio[p].bufferSerial.numberOfPacketsToSend
    /\ theLastTimeNewSerialDataWasAvailableWasLongEnough(radio[p])
    /\ ~radio[p].isWaitingForNewChannelNumberConfirmation

SendsNextPacket(p) ==
    /\ radio'[p].tx = <<Stamped(radio[p], radio[p].bufferSerial.numberOfPacketsSent)>>
    /\ radio'[p].bufferSerial.numberOfPacketsSent
          = radio[p].bufferSerial.numberOfPacketsSent + 1

AtMostOneTransmission(p) == Handled(p) => Len(radio'[p].tx) <= 1

\* C10: a zero-length packet received while packetsSent < packetsToSend, the
\* data-quiet timer has elapsed and no channel confirmation is pending
\* causes one transmission, of slot packetsSent numbered
\* packetsToSend - packetsSent - 1, and packetsSent grows by 1; no handler
\* invocation sends more than one packet.
C10_Original ==
    [][\A p \in DOMAIN radio :
          /\ AckWithPacketsLeft(p) => SendsNextPacket(p)
          /\ AtMostOneTransmission(p)]_vars

\* C10 (amended): the same, unless the radio is the Host and the page is one
\* packet holding the 1-byte channel-query or the 2-byte channel-change
\* command: the Host interprets that page and sends no packet of it.
C10_AckSendsOnePacket ==
    [][\A p \in DOMAIN radio :
          /\ AckWithPacketsLeft(p) =>
                IF HoldsHostCommand(radio[p]) THEN InterpretsCommand(p) ELSE SendsNextPacket(p)
          /\ AtMostOneTransmission(p)]_vars

C10_Witness ==
    \E p \in DOMAIN radio :
        /\ WasHandled(p) /\ last.data = <<>>
        /\ radio[p].bufferSerial.numberOfPacketsToSend >= 2
        /\ radio[p].bufferSerial.numberOfPacketsSent = 2
        /\ Len(radio[p].tx) = 1 /\ Len(radio[p].tx[1]) > 1
        /\ radio[p].lastTx.slot = 1

----------------------------------------------------------------------------
(* One ingestion pass into a freshly cleaned serial Buffer *)

MaxFetchBytes == 126
FetchSeeds == {0, 30}

FetchInputs == {Pattern(b, seed) : b \in 1..MaxFetchBytes, seed \in FetchSeeds}

FetchFresh(p) ==
    /\ Running(p) /\ budget > 0
    /\ \E bytes \in FetchInputs :
          /\ Commit(p, bufferSerialFetch(Begin(radio[p]), bytes), toHost, toDevice)
          /\ last' = Op("fetchFresh", p, bytes)
    /\ budget' = budget - 1
    /\ UNCHANGED <<acksOwed, message>>

FetchInit ==
    /\ \E p \in Radios : radio = [q \in {p} |-> NewRadio(p, TRUE)]
    /\ last = Op("begin", "none", <<>>)
    /\ toHost = <<>> /\ toDevice = <<>> /\ acksOwed = 0
    /\ pcLog = <<>> /\ message = <<>>
    /\ budget = 1

FetchNext == \E p \in Radios : FetchFresh(p)

FetchSpec == FetchInit /\ [][FetchNext]_vars

\* Bytes 1..positionWrite-1 of packets 0..n-1 of bufferSerial, in index order
RECURSIVE PagePayload(_, _)
PagePayload(st, n) ==
    IF n <= 0 THEN <<>>
    ELSE LET slot == At(st.bufferSerial.packetBuffer, n - 1)
         IN  PagePayload(st, n - 1) \o SubSeq(slot.data, 2, slot.positionWrite)

CeilDiv(a, b) == (a + b - 1) \div b

\* C2: one ingestion pass over B bytes, 31 < B <= 31 * N, into a freshly
\* cleaned serial Buffer ends with packetsToSend = ceil(B / 31) and with the
\* payloads of packets 0..packetsToSend-1 concatenating to the B input bytes.
C2_FetchFillsPage ==
    \A p \in DOMAIN radio :
        LET b == Len(last.data) IN
        last.op = "fetchFresh"
          /\ b > OPENBCI_MAX_DATA_BYTES_IN_PACKET
          /\ b <= OPENBCI_MAX_DATA_BYTES_IN_PACKET * OPENBCI_MAX_NUMBER_OF_BUFFERS =>
            /\ radio[p].bufferSerial.numberOfPacketsToSend
                  = CeilDiv(b, OPENBCI_MAX_DATA_BYTES_IN_PACKET)
            /\ PagePayload(radio[p], radio[p].bufferSerial.numberOfPacketsToSend) = last.data

Count(seq, x) == Cardinality({i \in 1..Len(seq) : seq[i] = x})

\* The overflow signal of lines 800-808 was emitted exactly once in the
\* operation that produced st
OverflowSignalledOnce(st) ==
    IF st.isDevice
    THEN /\ Count(st.tx, <<ORPM_DEVICE_SERIAL_OVERFLOW>>) = 1
         /\ Count(st.out, "v") = 1
    ELSE Count(st.out, "Input too large!$$$") = 1

FullyReset(buffer) ==
    /\ buffer.numberOfPacketsToSend = 0
    /\ buffer.numberOfPacketsSent = 0
    /\ \A i \in 1..OPENBCI_MAX_NUMBER_OF_BUFFERS :
          /\ buffer.packetBuffer[i].positionRead = 0
          /\ buffer.packetBuffer[i].positionWrite = 1

\* C11: an ingestion pass over more bytes than the serial Buffer holds
\* (31 * N) emits the overflow signal exactly once and ends with the Buffer
\* fully reset: packetsToSend = 0, packetsSent = 0 and every packet with
\* positionRead = 0 and positionWrite = 1.
C11_OverflowResetsBuffer ==
    \A p \in DOMAIN radio :
        last.op = "fetchFresh"
          /\ Len(last.data) > OPENBCI_MAX_DATA_BYTES_IN_PACKET * OPENBCI_MAX_NUMBER_OF_BUFFERS =>
            /\ OverflowSignalledOnce(radio[p])
            /\ FullyReset(radio[p].bufferSerial)

----------------------------------------------------------------------------
(* A well-formed packet reaches the receive handler with one payload bit
   flipped, the radio fresh or in the middle of a page *)

FlipPacketNumbers == {0, 1}

\* The well-formed packets: byteIdMake over a payload of 1..31 bytes
FlipBase ==
    {MakePacket(FALSE, n, Pattern(len, 0)) :
        n \in FlipPacketNumbers, len \in 1..OPENBCI_MAX_DATA_BYTES_IN_PACKET}

\* The packet before `message` in its page arrives intact
ReceiveIntact(p) ==
    /\ Running(p) /\ budget = 2
    /\ LET data == MakePacket(FALSE, byteIdGetPacketNumber(At(message, 0)) + 1, <<7>>)
       IN  /\ Commit(p, Logged(radio[p], data, RFduinoGZLL_onReceive(radio[p], data, NoOracle)),
                     toHost, toDevice)
           /\ last' = Op("receive", p, data)
    /\ budget' = 1
    /\ UNCHANGED <<acksOwed, message>>

\* `message` arrives with bit k of payload byte i flipped
ReceiveFlipped(p) ==
    /\ Running(p) /\ budget > 0
    /\ \E i \in 1..(Len(message) - 1), k \in 0..7 :
          LET data == Corrupt(message, i, k)
          IN  /\ Commit(p, Logged(radio[p], data, RFduinoGZLL_onReceive(radio[p], data, NoOracle)),
                        toHost, toDevice)
              /\ last' = Op("receiveFlipped", p, data)
    /\ budget' = 0
    /\ UNCHANGED <<acksOwed, message>>

FlipInit ==
    /\ \E p \in Radios : radio = [q \in {p} |-> NewRadio(p, TRUE)]
    /\ last = Op("begin", "none", <<>>)
    /\ toHost = <<>> /\ toDevice = <<>> /\ acksOwed = 0 /\ pcLog = <<>>
    /\ message \in FlipBase
    /\ budget = 2

FlipNext == \E p \in Radios : ReceiveIntact(p) \/ ReceiveFlipped(p)

FlipSpec == FlipInit /\ [][FlipNext]_vars

\* The bits in which packet a differs from packet b
FlippedBits(a, b) ==
    {k \in 0..7 : \E i \in 1..Len(a) : Bit(a[i], k) # Bit(b[i], k)}

IsFlipped(p) == p \in DOMAIN radio /\ last'.op = "receiveFlipped" /\ last'.role = p

AnsweredBadCheckSum(p) ==
    /\ radio'[p].tx = <<<<ORPM_PACKET_BAD_CHECK_SUM>>>>
    /\ radio'[p].previousPacketNumber = radio[p].previousPacketNumber

\* C6: every well-formed packet delivered with any single payload bit
\* flipped is answered with BAD_CHECKSUM and previousPacketNumber is unchanged.
C6_Original == [][\A p \in DOMAIN radio : IsFlipped(p) => AnsweredBadCheckSum(p)]_vars

\* C6 (amended): a well-formed packet delivered with one payload bit flipped
\* is answered with BAD_CHECKSUM, previousPacketNumber unchanged, exactly
\* when the flipped bit is one of the three low-order bits of its byte; a
\* flip of one of bits 3..7 leaves the 3-bit checksum valid and is never
\* answered with BAD_CHECKSUM.
C6_LowBitFlipsDetected ==
    [][\A p \in DOMAIN radio :
          IsFlipped(p) =>
              IF FlippedBits(last'.data, message) \subseteq 0..2
              THEN AnsweredBadCheckSum(p)
              ELSE \A j \in 1..Len(radio'[p].tx) :
                      radio'[p].tx[j] # <<ORPM_PACKET_BAD_CHECK_SUM>>]_vars

C6_Witness ==
    \E p \in DOMAIN radio :
        /\ last.op = "receiveFlipped"
        /\ FlippedBits(last.data, message) = {2}
        /\ radio[p].tx = <<<<ORPM_PACKET_BAD_CHECK_SUM>>>>
        /\ radio[p].previousPacketNumber # 0

----------------------------------------------------------------------------
(* Two peers: the Device ingests `message` once; the radio link delivers
   every packet intact and in the order sent.  toHost holds the Device's
   packets in flight, toDevice the payloads the Host has queued for its
   acknowledgements, acksOwed the acknowledgements in flight. *)

MaxInFlight == 2

LinkMessages ==
    {Pattern(len, 0) :
        len \in {1, OPENBCI_MAX_DATA_BYTES_IN_PACKET, OPENBCI_MAX_PACKET_SIZE_BYTES,
                 OPENBCI_MAX_DATA_BYTES_IN_PACKET * (OPENBCI_MAX_NUMBER_OF_BUFFERS - 1),
                 OPENBCI_MAX_DATA_BYTES_IN_PACKET * (OPENBCI_MAX_NUMBER_OF_BUFFERS - 1) + 1,
                 OPENBCI_MAX_DATA_BYTES_IN_PACKET * OPENBCI_MAX_NUMBER_OF_BUFFERS}}
    \cup {StreamFrame(3)}

DeviceIngests ==
    /\ linked /\ Running("Device") /\ budget > 0
    /\ Commit("Device", bufferSerialFetch(Begin(radio["Device"]), message), toHost, toDevice)
    /\ last' = Op("fetch", "Device", message)
    /\ budget' = budget - 1
    /\ UNCHANGED <<acksOwed, message>>

\* The Host receives the Device's oldest packet in flight and acknowledges
\* it; rcs are the outcomes the flash can give
HostReceivesWith(rcs) ==
    /\ linked /\ Running("Host") /\ toHost # <<>>
    /\ LET data == Head(toHost)
       IN  /\ \E o \in {x \in Oracles(radio["Host"], data) : x.rc \in rcs} :
                 Commit("Host", Logged(radio["Host"], data,
                                       RFduinoGZLL_onReceive(radio["Host"], data, o)),
                        Tail(toHost), toDevice)
           /\ last' = Op("receive", "Host", data)
    /\ acksOwed' = acksOwed + 1
    /\ UNCHANGED <<message, budget>>

HostReceives == HostReceivesWith(FlashResults)

\* The Device receives an acknowledgement, with the payload the Host has
\* queued or empty
DeviceReceivesAckWith(rcs) ==
    /\ linked /\ Running("Device") /\ acksOwed > 0
    /\ LET data == IF toDevice = <<>> THEN <<>> ELSE Head(toDevice)
           rest == IF toDevice = <<>> THEN <<>> ELSE Tail(toDevice)
       IN  /\ \E o \in {x \in Oracles(radio["Device"], data) : x.rc \in rcs} :
                 Commit("Device", Logged(radio["Device"], data,
                                         RFduinoGZLL_onReceive(radio["Device"], data, o)),
                        toHost, rest)
           /\ last' = Op("receive", "Device", data)
    /\ acksOwed' = acksOwed - 1
    /\ UNCHANGED <<message, budget>>

DeviceReceivesAck == DeviceReceivesAckWith(FlashResults)

DevicePolls == Len(toHost) + acksOwed < MaxInFlight /\ PollHost("Device")

LinkInit ==
    /\ \E debugMode \in BOOLEAN : radio = [p \in Radios |-> NewRadio(p, debugMode)]
    /\ last = Op("begin", "none", <<>>)
    /\ toHost = <<>> /\ toDevice = <<>> /\ acksOwed = 0 /\ pcLog = <<>>
    /\ message \in LinkMessages
    /\ budget = 1

LinkNext ==
    \/ DeviceIngests
    \/ HostReceives
    \/ DeviceReceivesAck
    \/ TimePasses("Device", 1..3)
    \/ SendStreamPacket("Device")
    \/ SendFirstPacket("Device")
    \/ DevicePolls
    \/ FlushRadioBuffer("Host")
    \/ FlushStreamPackets("Host")

LinkSpec == LinkInit /\ [][LinkNext]_vars

\* The main loops run for ever and the link delivers what is sent
LinkFairness ==
    /\ WF_vars(DeviceIngests)
    /\ WF_vars(HostReceives)
    /\ WF_vars(DeviceReceivesAck)
    /\ WF_vars(TimePasses("Device", 1..3))
    /\ WF_vars(SendStreamPacket("Device"))
    /\ WF_vars(SendFirstPacket("Device"))
    /\ WF_vars(DevicePolls)
    /\ WF_vars(FlushRadioBuffer("Host"))
    /\ WF_vars(FlushStreamPackets("Host"))

LinkFairSpec == LinkSpec /\ LinkFairness

Delivered ==
    /\ Len(pcLog) = Len(message) /\ pcLog = message
    /\ radio["Device"].bufferSerial.numberOfPacketsToSend = 0
    /\ radio["Device"].bufferSerial.numberOfPacketsSent = 0

\* C1: a message of B bytes within the Buffer capacity, ingested by the
\* Device in one pass, is eventually written to the Host's local transport
\* as exactly those bytes, once, and the Device's serial Buffer returns to
\* packetsToSend = 0, packetsSent = 0.
C1_MessageDelivered == <>[]Delivered

----------------------------------------------------------------------------
(* Two peers and the channel-change handshake: the Host is given the
   channel-change command `message`; the Device may have a short message of
   its own to send.  `budget` is what is still to be ingested: 1 for the
   Host's command, 2 for the Device's message. *)

ChannelCommands == {<<OPENBCI_HOST_CHANNEL_CHANGE, 12>>}

\* "Hi" and two small bytes
DeviceNotes == {<<72, 105>>, Pattern(2, 0)}

HostIngests ==
    /\ linked /\ Running("Host") /\ budget % 2 = 1
    /\ Commit("Host", bufferSerialFetch(Begin(radio["Host"]), message), toHost, toDevice)
    /\ last' = Op("fetch", "Host", message)
    /\ budget' = budget - 1
    /\ UNCHANGED <<acksOwed, message>>

DeviceIngestsNote ==
    /\ linked /\ Running("Device") /\ budget >= 2
    /\ \E note \in DeviceNotes :
          /\ Commit("Device", bufferSerialFetch(Begin(radio["Device"]), note), toHost, toDevice)
          /\ last' = Op("fetch", "Device", note)
    /\ budget' = budget - 2
    /\ UNCHANGED <<acksOwed, message>>

ChannelInit ==
    /\ \E debugMode \in BOOLEAN : radio = [p \in Radios |-> NewRadio(p, debugMode)]
    /\ last = Op("begin", "none", <<>>)
    /\ toHost = <<>> /\ toDevice = <<>> /\ acksOwed = 0 /\ pcLog = <<>>
    /\ message \in ChannelCommands
    /\ budget \in {1, 3}

\* The flash of either peer may refuse the erase or the write
ChannelNext ==
    \/ HostIngests
    \/ DeviceIngestsNote
    \/ HostReceives
    \/ DeviceReceivesAck
    \/ TimePasses("Host", 1..2)
    \/ TimePasses("Device", 1..3)
    \/ SendFirstPacket("Device")
    \/ DevicePolls
    \/ FlushRadioBuffer("Host")

ChannelSpec == ChannelInit /\ [][ChannelNext]_vars

\* The flash of both peers accepts every erase and write
HostReceivesPersisting == HostReceivesWith({"ok"})

DeviceReceivesAckPersisting == DeviceReceivesAckWith({"ok"})

PersistingNext ==
    \/ HostIngests
    \/ DeviceIngestsNote
    \/ HostReceivesPersisting
    \/ DeviceReceivesAckPersisting
    \/ TimePasses("Host", 1..2)
    \/ TimePasses("Device", 1..3)
    \/ SendFirstPacket("Device")
    \/ DevicePolls
    \/ FlushRadioBuffer("Host")

\* The main loops run for ever, the Host's command arrives and the link
\* delivers what is sent; whether the Device has a message is left open
PersistingFairness ==
    /\ WF_vars(HostIngests)
    /\ WF_vars(HostReceivesPersisting)
    /\ WF_vars(DeviceReceivesAckPersisting)
    /\ WF_vars(TimePasses("Host", 1..2))
    /\ WF_vars(TimePasses("Device", 1..3))
    /\ WF_vars(SendFirstPacket("Device"))
    /\ WF_vars(DevicePolls)
    /\ WF_vars(FlushRadioBuffer("Host"))

PersistingFairSpec == ChannelInit /\ [][PersistingNext]_vars /\ PersistingFairness

\* Both peers run on the channel of the command and have persisted it
BothOnNewChannel ==
    \A p \in Radios :
        /\ radio[p].gzllChannel = At(message, 1)
        /\ radio[p].flashChannel = At(message, 1)

\* C12: with a reliable link and a flash that accepts every write on both
\* peers, a channel-change command for channel 12 given to the Host runs the
\* handshake to its end: from some point on the runtime channel and the
\* persisted channel of both peers are 12.
C12_HandshakeAdoptsChannel == <>[]BothOnNewChannel

\* The step is the handler invocation in which the waiting Device consumes
\* a 1-byte packet as the new channel: the last step of a handshake
DeviceTakesChannel ==
    /\ "Device" \in DOMAIN radio
    /\ radio["Device"].isWaitingForNewChannelNumber
    /\ Handled("Device") /\ Len(last'.data) = 1

\* setChannelNumber reported success in the operation that produced st
\* (line 235 is the only write of the handler's waiting branch)
PersistenceSucceeded(st) == st.out = <<"Channel Number Set$$$">>

\* C13: when the Device's persistence write fails in a handshake, the
\* handshake ends with the runtime channel of the Host and of the Device
\* both equal to the channel in use before it started.
C13_FailedPersistenceKeepsChannel ==
    [][DeviceTakesChannel /\ ~PersistenceSucceeded(radio'["Device"]) =>
          \A p \in Radios : radio'[p].gzllChannel = DefaultRadioChannel]_vars

----------------------------------------------------------------------------
(* Control codes and the waiting state, under Spec *)

\* C14: a Device waiting for a new channel number takes the next 1-byte
\* packet as the channel value whatever the byte is (the serial Buffer is
\* not touched) and leaves the waiting state in that handler invocation; it
\* changes its runtime channel to the byte and sends one zero-length poll
\* exactly when setChannelNumber reports success, and otherwise keeps its
\* runtime channel and sends nothing.
C14_WaitingDeviceTakesChannel ==
    [][\A p \in DOMAIN radio :
          LET st == radio[p]
              after == radio'[p]
          IN  Handled(p) /\ st.isDevice /\ st.isWaitingForNewChannelNumber
                /\ Len(last'.data) = 1 =>
                  /\ ~after.isWaitingForNewChannelNumber
                  /\ after.bufferSerial = st.bufferSerial
                  /\ IF PersistenceSucceeded(after)
                     THEN /\ after.gzllChannel = At(last'.data, 0)
                          /\ after.tx = << <<>> >>
                     ELSE /\ after.gzllChannel = st.gzllChannel
                          /\ after.flashChannel \in {st.flashChannel, FLASH_ERASED}
                          /\ after.tx = <<>>]_vars

\* The waiting Device has taken the BAD_CHECKSUM code as its new channel
C14_Witness ==
    \E p \in DOMAIN radio :
        /\ WasHandled(p) /\ radio[p].isDevice
        /\ last.data = <<ORPM_PACKET_BAD_CHECK_SUM>>
        /\ PersistenceSucceeded(radio[p])
        /\ radio[p].gzllChannel = ORPM_PACKET_BAD_CHECK_SUM
        /\ radio[p].tx = << <<>> >>

Arms(p) ==
    /\ ~radio[p].isWaitingForNewChannelNumber
    /\ radio'[p].isWaitingForNewChannelNumber

\* C15: the waiting-for-new-channel-number state is entered only by a
\* Device, in a handler invocation that receives the 1-byte
\* CHANGE_CHANNEL_HOST_REQUEST code and replies with one 1-byte
\* CHANGE_CHANNEL_DEVICE_READY, and a Device not yet waiting that receives
\* that code does enter it; a Host that receives the code replies with one
\* INVALID_CODE_RECEIVED, and a Host is never in that state.
C15_OnlyDeviceArmsOnHostRequest ==
    [][\A p \in DOMAIN radio :
          LET st == radio[p]
              after == radio'[p]
              requested == Handled(p) /\ last'.data = <<ORPM_CHANGE_CHANNEL_HOST_REQUEST>>
          IN  /\ Arms(p) =>
                    /\ st.isDevice /\ requested
                    /\ after.tx = <<<<ORPM_CHANGE_CHANNEL_DEVICE_READY>>>>
              /\ requested /\ st.isDevice /\ ~st.isWaitingForNewChannelNumber => Arms(p)
              /\ requested /\ st.isHost =>
                    after.tx = <<<<ORPM_INVALID_CODE_RECEIVED>>>>
              /\ st.isHost => ~after.isWaitingForNewChannelNumber]_vars

C15_Witness ==
    \E p \in DOMAIN radio :
        /\ WasHandled(p) /\ last.data = <<ORPM_CHANGE_CHANNEL_HOST_REQUEST>>
        /\ radio[p].isDevice
        /\ radio[p].isWaitingForNewChannelNumber
        /\ radio[p].tx = <<<<ORPM_CHANGE_CHANNEL_DEVICE_READY>>>>

HandledCodes ==
    {ORPM_PACKET_BAD_CHECK_SUM, ORPM_PACKET_MISSED,
     ORPM_CHANGE_CHANNEL_HOST_REQUEST, ORPM_CHANGE_CHANNEL_DEVICE_READY}

\* The fields of the protocol: everything but the timers and the record of
\* what the operation sent and wrote
ProtocolState(st) ==
    [bufferSerial |-> st.bufferSerial,
     currentPacketBufferSerial |-> st.currentPacketBufferSerial,
     previousPacketNumber |-> st.previousPacketNumber,
     bufferRadio |-> st.bufferRadio,
     bufferPositionWriteRadio |-> st.bufferPositionWriteRadio,
     filledHost |-> st.isTheHostsRadioBufferFilledWithAllThePacketsFromTheDevice,
     filledDevice |-> st.isTheDevicesRadioBufferFilledWithAllThePacketsFromTheHost,
     bufferStreamPackets |-> st.bufferStreamPackets,
     streamPacketBuffer |-> st.streamPacketBuffer,
     waiting |-> st.isWaitingForNewChannelNumber,
     confirming |-> st.isWaitingForNewChannelNumberConfirmation,
     radioChannel |-> st.radioChannel,
     previousRadioChannel |-> st.previousRadioChannel,
     gzllChannel |-> st.gzllChannel,
     flashChannel |-> st.flashChannel]

\* C16: a radio that is not waiting for a new channel number and receives a
\* 1-byte packet whose value is none of BAD_CHECKSUM, PACKET_MISSED,
\* CHANGE_CHANNEL_HOST_REQUEST, CHANGE_CHANNEL_DEVICE_READY replies with one
\* 1-byte INVALID_CODE_RECEIVED and changes no protocol state.
C16_UnknownCodeAnsweredInvalid ==
    [][\A p \in DOMAIN radio :
          Handled(p) /\ ~radio[p].isWaitingForNewChannelNumber
                /\ Len(last'.data) = 1 /\ At(last'.data, 0) \notin HandledCodes =>
              /\ radio'[p].tx = <<<<ORPM_INVALID_CODE_RECEIVED>>>>
              /\ radio'[p].out = <<>>
              /\ ProtocolState(radio'[p]) = ProtocolState(radio[p])]_vars

\* A Host with a page in flight has been sent the Device's overflow code
C16_Witness ==
    \E p \in DOMAIN radio :
        /\ WasHandled(p) /\ last.data = <<ORPM_DEVICE_SERIAL_OVERFLOW>>
        /\ radio[p].isHost
        /\ radio[p].bufferSerial.numberOfPacketsToSend > 0
        /\ radio[p].tx = <<<<ORPM_INVALID_CODE_RECEIVED>>>>

----------------------------------------------------------------------------
(* The Device's stream-frame detector: the PIC gives the Device `message`,
   a candidate frame ('A', 31 bytes, a 33rd byte) and perhaps one byte more,
   in passes of any split; `budget` is the number of bytes still to come. *)

FrameLength == OPENBCI_MAX_PACKET_SIZE_BYTES + 1

StreamPayloads ==
    {Pattern(OPENBCI_MAX_DATA_BYTES_IN_PACKET, 0),
     [i \in 1..OPENBCI_MAX_DATA_BYTES_IN_PACKET |-> OPENBCI_STREAM_PACKET_HEAD],
     [i \in 1..OPENBCI_MAX_DATA_BYTES_IN_PACKET |-> 243]}

\* 0xF0..0xFF, 'A', and bytes that are neither: 7, 0x0F, 0xE3
LastBytes == 240..255 \cup {OPENBCI_STREAM_PACKET_HEAD, 7, 15, 227}

BytesAfter == {<<>>, <<9>>, <<OPENBCI_STREAM_PACKET_HEAD>>}

StreamCandidates ==
    {<<OPENBCI_STREAM_PACKET_HEAD>> \o payload \o <<b>> \o more :
        payload \in StreamPayloads, b \in LastBytes, more \in BytesAfter}

\* The number of bytes of `message` the Device has ingested
Ingested == Len(message) - budget

\* One pass of bufferSerialFetch over the next k bytes of `message`
IngestPass(k) ==
    /\ Running("Device") /\ k >= 1 /\ k <= budget
    /\ LET bytes == SubSeq(message, Ingested + 1, Ingested + k)
       IN  /\ Commit("Device", bufferSerialFetch(Begin(radio["Device"]), bytes), toHost, toDevice)
           /\ last' = Op("fetch", "Device", bytes)
    /\ budget' = budget - k
    /\ UNCHANGED <<acksOwed, message>>

\* The next byte alone, the bytes up to the end of the candidate frame, or
\* all that is left
IngestByte == IngestPass(1)

IngestFrame == Ingested < FrameLength /\ IngestPass(FrameLength - Ingested)

IngestAll == IngestPass(budget)

StreamInit ==
    /\ radio = [p \in {"Device"} |-> NewRadio(p, TRUE)]
    /\ last = Op("begin", "none", <<>>)
    /\ toHost = <<>> /\ toDevice = <<>> /\ acksOwed = 0 /\ pcLog = <<>>
    /\ message \in StreamCandidates
    /\ budget = Len(message)

StreamNext ==
    \/ IngestByte
    \/ IngestFrame
    \/ IngestAll
    \/ TimePasses("Device", 1..2)
    \/ SendStreamPacket("Device")

StreamSpec == StreamInit /\ [][StreamNext]_vars

\* `message` starts with a well-formed frame: its 33rd byte is 0xFX
IsFrame == At(message, FrameLength - 1) \div 16 = 15

Detector == radio["Device"].streamPacketBuffer

\* The stream packet that carries the frame of `message`, as the Host's
\* codec reads it
CarriesFrame(pkt) ==
    /\ Len(pkt) = OPENBCI_MAX_PACKET_SIZE_BYTES
    /\ byteIdGetIsStream(At(pkt, 0))
    /\ byteIdGetStreamPacketType(At(pkt, 0)) = At(message, FrameLength - 1) % 16
    /\ checkSumsAreEqual(pkt, OPENBCI_MAX_PACKET_SIZE_BYTES)
    /\ Tail(pkt) = SubSeq(message, 2, OPENBCI_MAX_PACKET_SIZE_BYTES)

\* C17: a fresh Device that has ingested exactly 'A', 31 bytes and a tail
\* byte 0xFX has readyForLaunch = TRUE and typeByte = 0xFX; its dispatch
\* sends one 32-byte radio packet with isStream set, stream sub-type X, a
\* checksum valid for its 31 payload bytes, and the 31 bytes that followed
\* 'A' as payload, in order.
C17_FrameDetectedAndDispatched ==
    [][/\ last'.op = "fetch" /\ Ingested < FrameLength /\ Ingested' = FrameLength /\ IsFrame =>
            /\ Detector'.readyForLaunch
            /\ Detector'.typeByte = At(message, FrameLength - 1)
       /\ last'.op = "stream" =>
            /\ Len(radio'["Device"].tx) = 1
            /\ CarriesFrame(radio'["Device"].tx[1])]_vars

\* A frame with sub-type 15 and a payload of 0xF3 bytes has been dispatched
C17_Witness ==
    /\ last.op = "stream"
    /\ At(message, FrameLength - 1) = 255
    /\ At(message, 1) = 243
    /\ Len(radio["Device"].tx) = 1
    /\ CarriesFrame(radio["Device"].tx[1])

\* C18: in GotHead no byte before the 33rd of the candidate frame ends that
\* state; a 33rd byte without the top nibble 0xF leaves the detector in
\* GotHead with bytesIn = 1 when it is 'A' and sends it back to Idle
\* otherwise, and readyForLaunch does not become true.
C18_FalseTailAbortsFrame ==
    /\ Ingested \in 1..(FrameLength - 1) =>
          /\ Detector.gotHead /\ Detector.bytesIn = Ingested
          /\ ~Detector.readyForLaunch
    /\ Ingested >= FrameLength /\ ~IsFrame => ~Detector.readyForLaunch
    /\ Ingested = FrameLength /\ ~IsFrame =>
          IF At(message, FrameLength - 1) = OPENBCI_STREAM_PACKET_HEAD
          THEN Detector.gotHead /\ Detector.bytesIn = 1
          ELSE ~Detector.gotHead

\* The 33rd byte was 'A' after a payload of 'A's: the detector has re-headed
C18_Witness ==
    /\ Ingested = FrameLength
    /\ At(message, FrameLength - 1) = OPENBCI_STREAM_PACKET_HEAD
    /\ At(message, 1) = OPENBCI_STREAM_PACKET_HEAD
    /\ Detector.gotHead /\ Detector.bytesIn = 1
    /\ ~Detector.readyForLaunch

\* C19: a byte ingested while the frame is ready for launch and not yet
\* dispatched resets the detector (gotHead = FALSE, bytesIn = 0,
\* readyForLaunch = FALSE), and the frame is never dispatched afterwards:
\* every dispatch happens with exactly the frame ingested.
C19_ByteAfterTailAbortsLaunch ==
    [][/\ last'.op = "fetch" /\ IsFrame /\ Ingested' > FrameLength
            /\ (Ingested < FrameLength \/ Detector.readyForLaunch) =>
            /\ ~Detector'.gotHead
            /\ Detector'.bytesIn = 0
            /\ ~Detector'.readyForLaunch
       /\ last'.op = "stream" => Ingested = FrameLength]_vars

\* The frame was ready, its delay had passed, and 'A' arrived before the
\* dispatch
C19_Witness ==
    /\ last.op = "fetch" /\ last.data = <<OPENBCI_STREAM_PACKET_HEAD>>
    /\ IsFrame /\ Ingested = FrameLength + 1
    /\ Detector.typeByte = At(message, FrameLength - 1)
    /\ radio["Device"].streamTimeoutElapsed
    /\ ~Detector.gotHead /\ Detector.bytesIn = 0 /\ ~Detector.readyForLaunch

----------------------------------------------------------------------------
(* The Host's flush of stream packets, under Spec *)

\* What the flush is to write for packets 0..n-1 of the stream-packets
\* Buffer: for each the start byte, bytes 1..31 of the packet and the stop
\* byte of the packet's own header
RECURSIVE StreamOutput(_, _)
StreamOutput(buffer, n) ==
    IF n <= 0 THEN <<>>
    ELSE LET pkt == At(buffer.packetBuffer, n - 1)
         IN  StreamOutput(buffer, n - 1)
                \o <<OPENBCI_STREAM_BYTE_START>>
                \o SubSeq(pkt.data, 2, OPENBCI_MAX_PACKET_SIZE_BYTES)
                \o <<outputGetStopByteFromByteId(At(pkt.data, 0))>>

\* The step is the handler's acceptance of a stream packet by Host p
AcceptsStreamPacket(p) ==
    /\ Handled(p) /\ radio[p].isHost /\ Len(last'.data) > 1
    /\ byteIdGetIsStream(At(last'.data, 0))
    /\ checkPacket(radio[p], last'.data, Len(last'.data)).goodToAddPacketToRadioBuffer

FlushesStreamPackets(p) == p \in DOMAIN radio /\ last'.op = "flushStream" /\ last'.role = p

\* C20: the Host keeps the stream packets it accepts in arrival order, one
\* per packet of the stream-packets Buffer, and its flush writes for each of
\* the k >= 1 packets, in that order, the start byte, the packet's own 31
\* payload bytes and the stop byte 0xC0 | sub-type of the packet's own
\* header; afterwards packetsToSend = 0 and packetsSent = 0.
C20_StreamFlushWritesEachPacket ==
    [][\A p \in DOMAIN radio :
          LET before == radio[p].bufferStreamPackets
              after == radio'[p].bufferStreamPackets
          IN  /\ AcceptsStreamPacket(p)
                    /\ before.numberOfPacketsToSend < OPENBCI_MAX_NUMBER_OF_BUFFERS - 1 =>
                    /\ after.numberOfPacketsToSend
                          = (IF before.numberOfPacketsToSend = 0 THEN 1
                             ELSE before.numberOfPacketsToSend + 1)
                    /\ At(after.packetBuffer, after.numberOfPacketsToSend - 1).data = last'.data
              /\ FlushesStreamPackets(p) =>
                    /\ radio'[p].out = StreamOutput(before, before.numberOfPacketsToSend)
                    /\ after.numberOfPacketsToSend = 0
                    /\ after.numberOfPacketsSent = 0]_vars

----------------------------------------------------------------------------
(* The packet numbers of a page in flight *)

\* The step transmits a data packet out of the serial Buffer of radio p
TransmitsFromBuffer(p) ==
    /\ p \in DOMAIN radio
    /\ last'.op \in {"receive", "first"} /\ last'.role = p
    /\ radio'[p].lastTx.slot # NULL
    /\ radio'[p].tx = <<radio'[p].lastTx.bytes>>
    /\ radio'[p].bufferSerial.numberOfPacketsSent
          = radio'[p].lastTx.slot + 1

RetransmissionCodes == {<<ORPM_PACKET_BAD_CHECK_SUM>>, <<ORPM_PACKET_MISSED>>}

\* One radio object that is never asked to retransmit
PageNext ==
    \E p \in Radios :
        \/ Fetch(p)
        \/ ReceiveWith(p, RadioInputs \ RetransmissionCodes)
        \/ TimePasses(p, 1..3)
        \/ MainLoop(p)
        \/ PollHost(p)

PageSpec == Init /\ [][PageNext]_vars

\* C21: between two resets of its serial Buffer, on a radio that receives no
\* BAD_CHECKSUM and no PACKET_MISSED code, the data packets the radio
\* transmits carry packet numbers that go down by exactly one from one
\* transmission to the next, also when ingestion passes run in between; and
\* the Buffer is reset after its last packet only when that packet was
\* numbered 0.
C21_PacketNumbersCountDown ==
    [][\A p \in DOMAIN radio :
          LET st == radio[p]
              after == radio'[p]
          IN  /\ TransmitsFromBuffer(p) /\ st.lastTx.slot # NULL =>
                    byteIdGetPacketNumber(At(after.lastTx.bytes, 0))
                       = byteIdGetPacketNumber(At(st.lastTx.bytes, 0)) - 1
              /\ Handled(p) /\ Len(last'.data) # 1
                    /\ st.lastTx.slot # NULL /\ after.lastTx.slot = NULL
                    /\ after.tx = <<>> =>
                    byteIdGetPacketNumber(At(st.lastTx.bytes, 0)) = 0]_vars

----------------------------------------------------------------------------
(* The packet number expected next, under Spec *)

\* The step is an ingestion pass of radio p that overflowed the serial Buffer
Overflowed(p) ==
    /\ p \in DOMAIN radio /\ last'.op = "fetch" /\ last'.role = p
    /\ IF radio'[p].isDevice
       THEN Count(radio'[p].tx, <<ORPM_DEVICE_SERIAL_OVERFLOW>>) >= 1
       ELSE Count(radio'[p].out, "Input too large!$$$") >= 1

\* The step is a handler run of radio p whose sequence check accepts a
\* packet numbered 0 or rejects the packet as missed
EndsOrMissesPage(p) ==
    /\ Handled(p) /\ Len(last'.data) > 1
    /\ LET verdict == checkPacket(radio[p], last'.data, Len(last'.data))
       IN  \/ /\ verdict.goodToAddPacketToRadioBuffer
              /\ byteIdGetPacketNumber(At(last'.data, 0)) = 0
           \/ verdict.msg = ORPM_PACKET_MISSED

\* C22: previousPacketNumber goes from a non-zero value to 0 only in a
\* handler run that accepts packet number 0 or rejects a packet as missed,
\* or in an ingestion pass that overflows; no other step resets it.
C22_OnlyPageEndResetsExpectedNumber ==
    [][\A p \in DOMAIN radio :
          radio[p].previousPacketNumber # 0 /\ radio'[p].previousPacketNumber = 0 =>
              EndsOrMissesPage(p) \/ Overflowed(p)]_vars

----------------------------------------------------------------------------
(* A Device, its PIC and a clock *)

\* OPENBCI_POLL_TIME_DURATION_MS in clock ticks; the serial timeout and the
\* stream delay are shorter than one tick
PollTicks == 2

MaxSilence == 3 * PollTicks

\* What the Device's loop() does at once when it comes round
MainLoopDue(st) ==
    \/ pollNow(st)
    \/ /\ thereIsDataInSerialBuffer(st)
       /\ theLastTimeNewSerialDataWasAvailableWasLongEnough(st)
       /\ st.bufferSerial.numberOfPacketsSent = 0
    \/ /\ isAStreamPacketWaitingForLaunch(st)
       /\ hasEnoughTimePassedToLaunchStreamPacket(st)

\* millis() advances by one tick; the main loop has come round in between,
\* so nothing that was due is left undone
Tick(p) ==
    /\ Running(p) /\ radio[p].isDevice
    /\ ~MainLoopDue(radio[p])
    /\ radio[p].sinceLastSend < MaxSilence
    /\ radio' = [radio EXCEPT ![p] =
          [@ EXCEPT !.sinceLastSend = @ + 1,
                    !.sinceLastPoll = @ + 1,
                    !.pollTimeoutElapsed = radio[p].sinceLastPoll + 1 > PollTicks,
                    !.serialTimeoutElapsed = TRUE,
                    !.streamTimeoutElapsed = TRUE]]
    /\ last' = Op("tick", p, <<>>)
    /\ UNCHANGED <<toHost, toDevice, acksOwed, pcLog, message, budget>>

PollInit ==
    /\ \E debugMode \in BOOLEAN : radio = [q \in {"Device"} |-> NewRadio(q, debugMode)]
    /\ last = Op("begin", "none", <<>>)
    /\ toHost = <<>>
    /\ toDevice = <<>>
    /\ acksOwed = 0
    /\ pcLog = <<>>
    /\ message = <<>>
    /\ budget = MaxOps

PollNext ==
    \/ Fetch("Device")
    \/ ReceiveWith("Device", {<<>>})
    \/ Tick("Device")
    \/ SendStreamPacket("Device")
    \/ SendFirstPacket("Device")
    \/ PollHost("Device")

PollSpec ==
    /\ PollInit /\ [][PollNext]_vars
    /\ WF_vars(SendStreamPacket("Device") \/ SendFirstPacket("Device") \/ PollHost("Device"))

\* C23: the Device transmits a radio packet at least once in every poll
\* interval. Read with all the slack the clock allows: the Device is never
\* silent for more than two whole poll intervals, so that no interval of
\* that length, wherever it starts, passes without a transmission.
C23_DeviceSendsEveryPollInterval ==
    \A p \in DOMAIN radio :
        radio[p].isDevice => radio[p].sinceLastSend <= 2 * PollTicks

----------------------------------------------------------------------------
(* The codec on its own: one call of byteIdMake or checkSumMake *)

CodecPayloads ==
    UNION {{Pattern(len, 0), Pattern(len, 7), [i \in 1..len |-> 255],
            [i \in 1..len |-> (37 * i) % 256], [i \in 1..len |-> 0]}
           : len \in 1..OPENBCI_MAX_DATA_BYTES_IN_PACKET}

CodecInit ==
    /\ radio = [q \in {"Host"} |-> NewRadio(q, TRUE)]
    /\ last = Op("begin", "none", <<>>)
    /\ toHost = <<>> /\ toDevice = <<>> /\ acksOwed = 0 /\ pcLog = <<>>
    /\ message \in CodecPayloads \cup {NullData}
    /\ budget = 1

\* byteIdMake(isStreamPacket, packetNumber, message, length of message); the
\* caller puts the result in front of the payload
CallsByteIdMake ==
    /\ budget > 0 /\ message # NullData
    /\ \E isStreamPacket \in BOOLEAN, packetNumber \in 0..15 :
          last' = Op("byteIdMake", "none",
                     <<byteIdMake(isStreamPacket, packetNumber, message, Len(message), 0)>>
                        \o message)
    /\ budget' = budget - 1
    /\ UNCHANGED <<radio, toHost, toDevice, acksOwed, pcLog, message>>

\* checkSumMake(message, length): last'.data is <<length, returned value>>
CallsCheckSumMake ==
    /\ budget > 0
    /\ \E length \in 0..(IF message = NullData THEN 2 ELSE Len(message)) :
       \E ub \in (IF message # NullData /\ length <= 0 THEN UBOutcomes ELSE {0}) :
          last' = Op("checkSumMake", "none", <<length, checkSumMake(message, length, ub)>>)
    /\ budget' = budget - 1
    /\ UNCHANGED <<radio, toHost, toDevice, acksOwed, pcLog, message>>

CodecNext == CallsByteIdMake \/ CallsCheckSumMake

CodecSpec == CodecInit /\ [][CodecNext]_vars

\* C24: for every stream flag, every packet number 0..15 and every payload
\* of 1..31 bytes, the byteId made of the payload, put in front of it, gives a
\* packet that passes checkSumsAreEqual.
C24_MadePacketPassesCheck ==
    last.op = "byteIdMake" => checkSumsAreEqual(last.data, Len(last.data))

C24_Witness ==
    /\ last.op = "byteIdMake"
    /\ Len(last.data) = OPENBCI_MAX_PACKET_SIZE_BYTES
    /\ byteIdGetIsStream(At(last.data, 0))
    /\ byteIdGetPacketNumber(At(last.data, 0)) = 15
    /\ At(last.data, 1) = 255
    /\ byteIdGetCheckSum(At(last.data, 0)) # 0

\* C25: checkSumMake returns 0 for a null data pointer and for any data
\* with length 0.
C25_NullOrEmptySumsToZero ==
    last.op = "checkSumMake" /\ (message = NullData \/ last.data[1] = 0)
        => last.data[2] = 0

----------------------------------------------------------------------------
(* Stream packets at the Host, under Spec *)

\* The step is a handler run of Host p on a stream packet with a valid checksum
ReceivesStreamPacket(p) ==
    /\ Handled(p) /\ radio[p].isHost /\ Len(last'.data) > 1
    /\ byteIdGetIsStream(At(last'.data, 0))
    /\ checkSumsAreEqual(last'.data, Len(last'.data))

\* C26: a stream packet with a valid checksum received by the Host is
\* always put into the stream-packets Buffer and never answered with
\* PACKET_MISSED, whatever its sub-type and whatever was received before.
C26_StreamPacketAlwaysAccepted ==
    [][\A p \in DOMAIN radio :
          ReceivesStreamPacket(p) =>
              /\ Count(radio'[p].tx, <<ORPM_PACKET_MISSED>>) = 0
              /\ radio'[p].bufferStreamPackets # radio[p].bufferStreamPackets
              /\ radio'[p].bufferPositionWriteRadio = radio[p].bufferPositionWriteRadio]_vars

----------------------------------------------------------------------------
(* Two peers over a link that loses packets *)

\* The Device's oldest packet in flight is lost: the Host does not receive
\* it and the Device gets no acknowledgement for it
LosesPacket ==
    /\ linked /\ toHost # <<>>
    /\ toHost' = Tail(toHost)
    /\ last' = Op("lose", "Device", Head(toHost))
    /\ UNCHANGED <<radio, toDevice, acksOwed, pcLog, message, budget>>

LossSpec == LinkInit /\ [][LinkNext \/ LosesPacket]_vars

\* The message fits the serial Buffer: the Device ingests it as one page
OnePage == Len(message) <= OPENBCI_MAX_DATA_BYTES_IN_PACKET * (OPENBCI_MAX_NUMBER_OF_BUFFERS - 1)

\* C27: under any pattern of packet loss, whenever the ready-to-flush flag
\* of the Host is raised its inbound radio buffer holds exactly the bytes of
\* the page as the Device ingested it.
C27_FlaggedBufferHoldsOnePage ==
    LET host == radio["Host"]
    IN  linked /\ OnePage
           /\ host.isTheHostsRadioBufferFilledWithAllThePacketsFromTheDevice =>
              /\ host.bufferPositionWriteRadio = Len(message)
              /\ SubSeq(host.bufferRadio, 1, Len(message)) = message

----------------------------------------------------------------------------
(* What the handler reads when it sends, under Spec *)

\* C28: every packet the handler sends out of the serial Buffer is read
\* from a slot 0..packetsToSend-1 that holds at least one payload byte
\* (positionWrite >= 2) and is stamped with a packet number 0..N-1, for
\* every received packet in every state of the Buffer.
C28_SendReadsFilledSlot ==
    [][\A p \in DOMAIN radio :
          LET d == onReceiveDecide(Begin(radio[p]), last'.data, "ok")
              buffer == d.st.bufferSerial
              idx == buffer.numberOfPacketsSent
          IN  Handled(p) /\ d.willSendDataFromBufferSerial =>
                  /\ idx \in 0..(buffer.numberOfPacketsToSend - 1)
                  /\ At(buffer.packetBuffer, idx).positionWrite >= 2
                  /\ packetNumberToSend(d.st) \in 0..(OPENBCI_MAX_NUMBER_OF_BUFFERS - 1)]_vars

----------------------------------------------------------------------------
(* Two peers and one control code *)

\* Both peers after construction, neither waiting for a channel number, and
\* one 1-byte code on its way to the Host or, as an acknowledgement payload,
\* to the Device
CodeInit ==
    /\ \E debugMode \in BOOLEAN : radio = [p \in Radios |-> NewRadio(p, debugMode)]
    /\ last = Op("begin", "none", <<>>)
    /\ pcLog = <<>> /\ message = <<>> /\ budget = 0
    /\ \E code \in ControlCodes :
          \/ toHost = <<<<code>>>> /\ toDevice = <<>> /\ acksOwed = 0
          \/ toHost = <<>> /\ toDevice = <<<<code>>>> /\ acksOwed = 1

\* The link delivers what is sent, the Device's loop() runs for ever
CodeSpec ==
    /\ CodeInit
    /\ [][HostReceives \/ DeviceReceivesAck \/ DevicePolls
             \/ TimePasses("Device", 1..3)]_vars
    /\ WF_vars(HostReceives) /\ WF_vars(DeviceReceivesAck)
    /\ WF_vars(DevicePolls) /\ WF_vars(TimePasses("Device", 1..3))

CodeInFlight ==
    \/ \E i \in 1..Len(toHost) : Len(toHost[i]) = 1
    \/ \E i \in 1..Len(toDevice) : Len(toDevice[i]) = 1

\* C29: the exchange of 1-byte replies started by a single 1-byte code
\* delivered to either peer terminates: eventually no control-code reply is
\* in flight and none is generated any more.
C29_CodeExchangeTerminates == <>[]~CodeInFlight

----------------------------------------------------------------------------
(* The Host's stream flush, step by step, and the receive handler *)

\* One step of loop() in and around writeTheHostsStreamPacketBufferToThePC;
\* flushAt is where loop() stands: outside the routine ("idle"), at the test
\* of the while loop ("test"), in its body ("write"), or past the loop and
\* before bufferCleanStreamPackets ("clean")
FlushStreamPacketsStep(p) ==
    /\ Running(p) /\ radio[p].isHost
    /\ radio[p].flushAt = "idle" => doesTheHostHaveAStreamPacketToSendToPC(radio[p])
    /\ LET st == Begin(radio[p])
           buffer == st.bufferStreamPackets
       IN  \E wb \in (IF st.flushAt = "write" /\ buffer.numberOfPacketsSent > 0
                      THEN WildBytes ELSE {0}) :
             Commit(p,
                CASE st.flushAt = "idle" -> [st EXCEPT !.flushAt = "test"]
                  [] st.flushAt = "test" ->
                       [st EXCEPT !.flushAt =
                           IF buffer.numberOfPacketsToSend > buffer.numberOfPacketsSent
                           THEN "write" ELSE "clean"]
                  [] st.flushAt = "write" ->
                       [writeStreamPacket(st, buffer.numberOfPacketsSent, wb)
                           EXCEPT !.bufferStreamPackets.numberOfPacketsSent = @ + 1,
                                  !.flushAt = "test"]
                  [] st.flushAt = "clean" ->
                       [bufferCleanStreamPackets(st, buffer.numberOfPacketsToSend)
                           EXCEPT !.flushAt = "idle"],
                toHost, toDevice)
    /\ last' = Op("flushStep", p, <<>>)
    /\ UNCHANGED <<acksOwed, message, budget>>

\* The handler may run between any two steps of the flush
RaceSpec ==
    Init /\ [][\E p \in Radios :
                  \/ ReceiveWith(p, {pkt \in GoodPackets : byteIdGetIsStream(At(pkt, 0))})
                  \/ FlushStreamPacketsStep(p)]_vars

\* The step is the Buffer reset that ends the flush of Host p
EndsFlush(p) ==
    /\ p \in DOMAIN radio /\ last'.op = "flushStep" /\ last'.role = p
    /\ radio[p].flushAt = "clean"

\* C30: with the handler running between the steps of the flush, every
\* stream packet the handler accepted is written exactly once: the reset that
\* ends the flush discards no packet that was not written (packetsSent has
\* reached packetsToSend), and each step of the loop writes a packet not
\* written before.
C30_FlushLosesNoStreamPacket ==
    [][\A p \in DOMAIN radio :
          LET buffer == radio[p].bufferStreamPackets
          IN  /\ EndsFlush(p) => buffer.numberOfPacketsSent = buffer.numberOfPacketsToSend
              /\ last'.op = "flushStep" /\ last'.role = p /\ radio[p].flushAt = "write" =>
                    /\ buffer.numberOfPacketsSent < buffer.numberOfPacketsToSend
                    /\ radio'[p].bufferStreamPackets.numberOfPacketsSent
                          = buffer.numberOfPacketsSent + 1]_vars

----------------------------------------------------------------------------
(* Ordinary bytes and the dispatch of a stream packet, under Spec *)

\* The bytes held in the serial Buffer of st
Pending(st) == PagePayload(st, st.bufferSerial.numberOfPacketsToSend)

\* C31: the dispatch of a stream packet discards no ordinary byte: when the
\* serial Buffer of the Device holds, untransmitted, more bytes than the 33
\* of the frame, the bytes in front of the frame's head byte are still in
\* the Buffer after sendStreamPacketToTheHost.
C31_StreamDispatchKeepsOrdinaryBytes ==
    [][\A p \in DOMAIN radio :
          last'.op = "stream" /\ last'.role = p
             /\ radio[p].bufferSerial.numberOfPacketsSent = 0
             /\ Len(Pending(radio[p])) > FrameLength =>
                 Pending(radio'[p])
                    = SubSeq(Pending(radio[p]), 1, Len(Pending(radio[p])) - FrameLength)]_vars

----------------------------------------------------------------------------
(* The channel a waiting Device adopts, under Spec *)

\* C32: whenever a Device adopts a new runtime channel in the handshake
\* (the persistence succeeded), the runtime channel equals the value just
\* persisted and lies in the valid channel range, for every 1-byte value
\* received while waiting.
C32_AdoptedChannelIsPersistedChannel ==
    [][\A p \in DOMAIN radio :
          LET st == radio[p]
              after == radio'[p]
          IN  Handled(p) /\ st.isDevice /\ st.isWaitingForNewChannelNumber
                /\ Len(last'.data) = 1 /\ PersistenceSucceeded(after) =>
                  /\ after.gzllChannel = after.flashChannel
                  /\ after.gzllChannel \in
                        RFDUINOGZLL_CHANNEL_LIMIT_LOWER..RFDUINOGZLL_CHANNEL_LIMIT_UPPER]_vars

----------------------------------------------------------------------------
(* Where the detector stores, under StreamSpec *)

\* The step is an ingestion pass over one byte which the detector stores
\* (line 523): a head was seen and no frame is ready for launch
DetectorStores ==
    /\ last'.op = "fetch" /\ last'.role = "Device" /\ Len(last'.data) = 1
    /\ radio["Device"].streamPacketBuffer.gotHead
    /\ ~radio["Device"].streamPacketBuffer.readyForLaunch

\* C33: every byte the detector stores lands inside the 32-byte
\* stream-packet buffer: the store index bytesIn is always in 1..31.
C33_DetectorStoresInsideBuffer ==
    [][DetectorStores =>
          /\ radio["Device"].streamPacketBuffer.bytesIn
                \in 1..(OPENBCI_MAX_PACKET_SIZE_BYTES - 1)
          /\ At(radio'["Device"].streamPacketBuffer.data,
                radio["Device"].streamPacketBuffer.bytesIn) = At(last'.data, 0)]_vars

----------------------------------------------------------------------------
(* The Host's own commands, under Spec *)

\* The step is a handler run of Host p that comes to send slot 0 of a
\* one-packet page whose packet holds `length` bytes starting with `code`
SendsCommand(p, code, length) ==
    /\ Handled(p) /\ radio[p].isHost
    /\ LET d == onReceiveDecide(Begin(radio[p]), last'.data, "ok")
           first == At(d.st.bufferSerial.packetBuffer, 0)
       IN  /\ d.willSendDataFromBufferSerial
           /\ d.st.bufferSerial.numberOfPacketsToSend = 1
           /\ d.st.bufferSerial.numberOfPacketsSent = 0
           /\ first.positionWrite = length + 1
           /\ At(first.data, 1) = code

\* C34: when the Host is about to send a buffered one-packet, one-byte
\* channel query, it writes the persisted channel to its local transport,
\* transmits nothing, and the serial Buffer is fully reset when the handler
\* returns: packetsToSend = 0 and packetsSent = 0.
C34_ChannelQueryAnsweredLocally ==
    [][\A p \in DOMAIN radio :
          SendsCommand(p, OPENBCI_HOST_CHANNEL_QUERY, 1) =>
              /\ radio'[p].out = <<getChannelNumber(radio[p])>>
              /\ radio'[p].tx = <<>>
              /\ radio'[p].bufferSerial.numberOfPacketsToSend = 0
              /\ radio'[p].bufferSerial.numberOfPacketsSent = 0]_vars

\* The byte c of the buffered command [code, c] in slot 0 of Host p
BufferedChannel(p) ==
    At(At(onReceiveDecide(Begin(radio[p]), last'.data, "ok").st.bufferSerial.packetBuffer, 0).data, 2)

\* C35: when the Host processes a buffered two-byte channel-change command
\* [code, c]: with c above the upper channel limit it writes the
\* channel-change-invalid code locally and sends nothing; otherwise it records
\* the persisted channel as the previous channel, sets radioChannel to c and
\* sends exactly one 1-byte CHANGE_CHANNEL_HOST_REQUEST.  The decision follows
\* the buffered byte c alone, whatever radio packet triggered the send.
C35_ChannelChangeDecidedByBufferedByte ==
    [][\A p \in DOMAIN radio :
          SendsCommand(p, OPENBCI_HOST_CHANNEL_CHANGE, 2) =>
              IF BufferedChannel(p) > RFDUINOGZLL_CHANNEL_LIMIT_UPPER
              THEN /\ radio'[p].out = <<OPENBCI_HOST_CHANNEL_CHANGE_INVALID>>
                   /\ radio'[p].tx = <<>>
              ELSE /\ radio'[p].previousRadioChannel = getChannelNumber(radio[p])
                   /\ radio'[p].radioChannel = BufferedChannel(p)
                   /\ radio'[p].tx = <<<<ORPM_CHANGE_CHANNEL_HOST_REQUEST>>>>]_vars

----------------------------------------------------------------------------
(* The inbound radio buffer filled to its capacity: one radio of either role
   handed full packets faster than its main loop flushes them *)

FillOps == 6

\* Well-formed non-stream packets with a full payload, numbered 0 and 1
FillPackets ==
    {MakePacket(FALSE, n, Pattern(OPENBCI_MAX_DATA_BYTES_IN_PACKET, seed)) :
        n \in {0, 1}, seed \in {0, 30}}

FillInit ==
    /\ \E p \in Radios : radio = [q \in {p} |-> NewRadio(p, FALSE)]
    /\ last = Op("begin", "none", <<>>)
    /\ toHost = <<>>
    /\ toDevice = <<>>
    /\ acksOwed = 0
    /\ pcLog = <<>>
    /\ message = <<>>
    /\ budget = FillOps

FillSpec ==
    FillInit /\ [][\E p \in Radios :
                      \/ ReceiveWith(p, FillPackets)
                      \/ FlushRadioBuffer(p)]_vars

\* The step is a handler run of radio p that accepts a non-stream packet
\* while the write cursor of bufferRadio stands at the capacity
AcceptsWhenFull(p) ==
    /\ Handled(p)
    /\ Len(last'.data) > 1 /\ ~byteIdGetIsStream(At(last'.data, 0))
    /\ checkPacket(radio[p], last'.data, Len(last'.data)).goodToAddPacketToRadioBuffer
    /\ radio[p].bufferPositionWriteRadio = OPENBCI_BUFFER_LENGTH

ErrorReplies ==
    {<<c>> : c \in {ORPM_INVALID_CODE_RECEIVED, ORPM_PACKET_BAD_CHECK_SUM,
                    ORPM_PACKET_MISSED, ORPM_DEVICE_SERIAL_OVERFLOW}}

\* C36: in every reachable state the write cursor of bufferRadio is between
\* 0 and the buffer's capacity; the payload of an accepted non-stream packet
\* that arrives with the cursor at the capacity is dropped (buffer and cursor
\* stay as they were) with no error reply, and an accepted packet numbered 0
\* still raises the two ready-to-flush flags.
C36_RadioCursorWithinCapacity ==
    /\ [](\A p \in DOMAIN radio :
             radio[p].bufferPositionWriteRadio \in 0..OPENBCI_BUFFER_LENGTH)
    /\ [][\A p \in DOMAIN radio :
             AcceptsWhenFull(p) =>
                 /\ radio'[p].bufferRadio = radio[p].bufferRadio
                 /\ radio'[p].bufferPositionWriteRadio = OPENBCI_BUFFER_LENGTH
                 /\ \A i \in 1..Len(radio'[p].tx) : radio'[p].tx[i] \notin ErrorReplies
                 /\ (byteIdGetPacketNumber(At(last'.data, 0)) = 0 =>
                       /\ radio'[p].isTheHostsRadioBufferFilledWithAllThePacketsFromTheDevice
                       /\ radio'[p].isTheDevicesRadioBufferFilledWithAllThePacketsFromTheHost)]_vars

\* Six full packets accepted since the cursor was last 0, the sixth numbered
\* 0: five fill the buffer, so the sixth arrived with the cursor at capacity
C36_Witness ==
    \E p \in DOMAIN radio :
        /\ WasHandled(p)
        /\ Len(radio[p].accepted) = FillOps
        /\ radio[p].accepted[FillOps] = 0
        /\ radio[p].bufferPositionWriteRadio = OPENBCI_BUFFER_LENGTH
        /\ radio[p].isTheHostsRadioBufferFilledWithAllThePacketsFromTheDevice
        /\ radio[p].isTheDevicesRadioBufferFilledWithAllThePacketsFromTheHost

====
